---- MODULE Spec2Model ----
(***************************************************************************)
(* IOC extraction pipeline (IOCParser), registry (ConfigManager), query    *)
(* compiler (ReportGenerator) and controller (AppController).              *)
(*                                                                         *)
(* A Python str is a sequence of one-character strings.  A regular         *)
(* expression is a tree of records, evaluated by Ends with the priority    *)
(* order of Python's backtracking matcher.                                 *)
(***************************************************************************)
EXTENDS Integers, Sequences, FiniteSets, TLC

(***************************************************************************)
(* Character classes of the regular expressions (Python 3 str patterns).   *)
(***************************************************************************)
Digit09 == {"0", "1", "2", "3", "4", "5", "6", "7", "8", "9"}
Digit05 == {"0", "1", "2", "3", "4", "5"}
Digit04 == {"0", "1", "2", "3", "4"}
Digit01 == {"0", "1"}
LowerAZ == {"a", "b", "c", "d", "e", "f", "g", "h", "i", "j", "k", "l", "m",
            "n", "o", "p", "q", "r", "s", "t", "u", "v", "w", "x", "y", "z"}
UpperAZ == {"A", "B", "C", "D", "E", "F", "G", "H", "I", "J", "K", "L", "M",
            "N", "O", "P", "Q", "R", "S", "T", "U", "V", "W", "X", "Y", "Z"}
AlphaAZ == LowerAZ \cup UpperAZ
AlnumAZ == AlphaAZ \cup Digit09
HexChar == {"a", "b", "c", "d", "e", "f", "A", "B", "C", "D", "E", "F"} \cup Digit09
\* \s and \w
WhiteSpace == {" ", "\n", "\t", "\r"}
WordChar == AlnumAZ \cup {"_"}

(***************************************************************************)
(* Regular expression trees.                                               *)
(***************************************************************************)
Unbounded == 0 - 1

Cls(S) == [t |-> "cls", s |-> S]
Neg(S) == [t |-> "neg", s |-> S]
Lit(c) == [t |-> "cls", s |-> {c}]
Dot == [t |-> "dot"]
WB == [t |-> "wb"]
Bol == [t |-> "bol"]
Eol == [t |-> "eol"]
Cat(a) == [t |-> "cat", a |-> a]
Alt(a) == [t |-> "alt", a |-> a]
Rep(r, lo, hi) == [t |-> "rep", r |-> r, lo |-> lo, hi |-> hi, lazy |-> FALSE]
RepLazy(r, lo, hi) == [t |-> "rep", r |-> r, lo |-> lo, hi |-> hi, lazy |-> TRUE]
Look(r) == [t |-> "look", r |-> r]
Star(r) == Rep(r, 0, Unbounded)
Plus(r) == Rep(r, 1, Unbounded)
Opt(r) == Rep(r, 0, 1)
\* the literal text w, character by character
Word(w) == Cat([k \in 1..Len(w) |-> Lit(w[k])])

IsWordAt(s, k) == k >= 1 /\ k <= Len(s) /\ s[k] \in WordChar

RECURSIVE Dedup(_)
\* keeps the first occurrence of every element
Dedup(q) ==
    IF q = <<>> THEN <<>>
    ELSE LET h == Head(q)
         IN  <<h>> \o Dedup(SelectSeq(Tail(q), LAMBDA e : e # h))

RECURSIVE Ends(_, _, _), FlatEnds(_, _, _), CatEnds(_, _, _, _), AltEnds(_, _, _, _), RepEnds(_, _, _, _), FlatRep(_, _, _, _)
\* Positions where a match of re that starts after i characters of s can
\* end, in the order the backtracking matcher tries them.
Ends(re, s, i) ==
    CASE re.t = "cls" -> IF i < Len(s) /\ s[i + 1] \in re.s THEN <<i + 1>> ELSE <<>>
      [] re.t = "neg" -> IF i < Len(s) /\ s[i + 1] \notin re.s THEN <<i + 1>> ELSE <<>>
      [] re.t = "dot" -> IF i < Len(s) /\ s[i + 1] # "\n" THEN <<i + 1>> ELSE <<>>
      [] re.t = "wb" -> IF IsWordAt(s, i) # IsWordAt(s, i + 1) THEN <<i>> ELSE <<>>
      [] re.t = "bol" -> IF i = 0 THEN <<i>> ELSE <<>>
      [] re.t = "eol" -> IF i = Len(s) \/ (i = Len(s) - 1 /\ s[Len(s)] = "\n")
                         THEN <<i>> ELSE <<>>
      [] re.t = "look" -> IF Ends(re.r, s, i) # <<>> THEN <<i>> ELSE <<>>
      [] re.t = "cat" -> CatEnds(re.a, 1, s, <<i>>)
      [] re.t = "alt" -> Dedup(AltEnds(re.a, 1, s, i))
      [] re.t = "rep" -> Dedup(RepEnds(re, s, i, 0))

FlatEnds(re, s, starts) ==
    IF starts = <<>> THEN <<>>
    ELSE Ends(re, s, Head(starts)) \o FlatEnds(re, s, Tail(starts))

CatEnds(a, k, s, starts) ==
    IF k > Len(a) \/ starts = <<>> THEN starts
    ELSE CatEnds(a, k + 1, s, Dedup(FlatEnds(a[k], s, starts)))

AltEnds(a, k, s, i) ==
    IF k > Len(a) THEN <<>>
    ELSE Ends(a[k], s, i) \o AltEnds(a, k + 1, s, i)

FlatRep(re, s, starts, n) ==
    IF starts = <<>> THEN <<>>
    ELSE RepEnds(re, s, Head(starts), n) \o FlatRep(re, s, Tail(starts), n)

\* n iterations of re.r are done and the match stands after i characters
RepEnds(re, s, i, n) ==
    LET more == IF re.hi = Unbounded \/ n < re.hi
                THEN FlatRep(re, s, SelectSeq(Ends(re.r, s, i), LAMBDA e : e > i), n + 1)
                ELSE <<>>
        stop == IF n >= re.lo THEN <<i>> ELSE <<>>
    IN  IF re.lazy THEN stop \o more ELSE more \o stop

\* re.match / one step of the scanner: the end of the match at i, or -1
NoMatch == 0 - 1
MatchAt(re, s, i) ==
    LET e == Ends(re, s, i) IN IF e = <<>> THEN NoMatch ELSE Head(e)

RECURSIVE ScanFrom(_, _, _)
\* re.finditer: the spans <<start, end>> (0-based, end exclusive) of the
\* non-overlapping matches, left to right
ScanFrom(re, s, i) ==
    IF i > Len(s) THEN <<>>
    ELSE LET e == MatchAt(re, s, i)
         IN  IF e = NoMatch THEN ScanFrom(re, s, i + 1)
             ELSE <<<<i, e>>>> \o ScanFrom(re, s, IF e > i THEN e ELSE i + 1)

FindIter(re, s) == ScanFrom(re, s, 0)

Slice(s, start, end) == SubSeq(s, start + 1, end)

\* re.findall for a pattern without capturing groups
FindAll(re, s) ==
    LET sp == FindIter(re, s)
    IN  [k \in 1..Len(sp) |-> Slice(s, sp[k][1], sp[k][2])]

(***************************************************************************)
(* str methods.                                                            *)
(***************************************************************************)
StartsWithAt(s, k, sub) ==
    /\ k + Len(sub) - 1 <= Len(s)
    /\ \A j \in 1..Len(sub) : s[k + j - 1] = sub[j]

RECURSIVE FindFrom(_, _, _)
\* s.find(sub) from 1-based position k: the 1-based position, or 0
FindFrom(s, sub, k) ==
    IF k + Len(sub) - 1 > Len(s) THEN 0
    ELSE IF StartsWithAt(s, k, sub) THEN k
    ELSE FindFrom(s, sub, k + 1)

Contains(s, sub) == FindFrom(s, sub, 1) # 0

RECURSIVE ReplaceFrom(_, _, _, _)
ReplaceFrom(s, old, new, k) ==
    LET p == FindFrom(s, old, k)
    IN  IF p = 0 THEN SubSeq(s, k, Len(s))
        ELSE SubSeq(s, k, p - 1) \o new \o ReplaceFrom(s, old, new, p + Len(old))

\* s.replace(old, new) for a non-empty old: every non-overlapping
\* occurrence, leftmost first
Replace(s, old, new) == ReplaceFrom(s, old, new, 1)

RECURSIVE LStrip(_)
LStrip(s) == IF s # <<>> /\ Head(s) \in WhiteSpace THEN LStrip(Tail(s)) ELSE s

RECURSIVE RStrip(_)
RStrip(s) ==
    IF s # <<>> /\ s[Len(s)] \in WhiteSpace THEN RStrip(SubSeq(s, 1, Len(s) - 1)) ELSE s

Strip(s) == LStrip(RStrip(s))

Spaces(n) == [k \in 1..n |-> " "]

RECURSIVE SubSpans(_, _, _, _)
\* pattern.sub(r'\1', s) for a pattern whose group 1 is its first
\* character: the text of s from position at (0-based) on, with the k-th
\* and later spans of sp replaced by their first element
SubSpans(s, sp, k, at) ==
    IF k > Len(sp) THEN Slice(s, at, Len(s))
    ELSE Slice(s, at, sp[k][1]) \o Slice(s, sp[k][1], sp[k][1] + 1)
         \o SubSpans(s, sp, k + 1, sp[k][2])

(***************************************************************************)
(* IOCParser.clean_ioc                                                      *)
(***************************************************************************)
\* re.sub(r'\s+', ' ', s)
RECURSIVE CollapseRuns(_)
CollapseRuns(s) ==
    IF s = <<>> THEN <<>>
    ELSE IF Head(s) \in WhiteSpace
    THEN <<" ">> \o CollapseRuns(LStrip(s))
    ELSE <<Head(s)>> \o CollapseRuns(Tail(s))

CollapseWhitespace(s) == CollapseRuns(s)

HostChar == AlnumAZ \cup {".", "-"}
\* the parts of r'^(https?://)([a-zA-Z0-9.-]+)(:\d+)(/.*)?$'
PortProtocol == Cat(<<Bol, Word(<<"h", "t", "t", "p">>), Opt(Lit("s")), Word(<<":", "/", "/">>)>>)
PortHost == Plus(Cls(HostChar))
PortPort == Cat(<<Lit(":"), Plus(Cls(Digit09))>>)
PortPath == Cat(<<Opt(Cat(<<Lit("/"), Star(Dot)>>)), Eol>>)

RECURSIVE Groups(_, _, _, _), TryEach(_, _, _, _)
\* The first successful match, in the matcher's order, of parts[k..] from
\* position i: <<i, e_k, ..., e_n>>, where e_j is the end of parts[j], or
\* <<>> if there is none.
Groups(parts, k, s, i) ==
    IF k > Len(parts) THEN <<i>>
    ELSE TryEach(parts, k, s, <<i>> \o Ends(parts[k], s, i))

\* q is <<i>> followed by the ends of parts[k] that are still to try
TryEach(parts, k, s, q) ==
    IF Len(q) = 1 THEN <<>>
    ELSE LET r == Groups(parts, k + 1, s, q[2])
         IN  IF r # <<>> THEN <<q[1]>> \o r
             ELSE TryEach(parts, k, s, <<q[1]>> \o SubSeq(q, 3, Len(q)))

\* re.match(port_pattern, s): <<0, e1, e2, e3, e4>> or <<>>
PortMatch(s) == Groups(<<PortProtocol, PortHost, PortPort, PortPath>>, 1, s, 0)

SchemeSep == <<":", "/", "/">>

\* 'http' + cleaned[cleaned.find('://'):]
ForceScheme(cleaned, at) ==
    IF at = 0 THEN cleaned ELSE <<"h", "t", "t", "p">> \o SubSeq(cleaned, at, Len(cleaned))

\* f"{protocol}{host}{path or ''}" when the port pattern matched
DropPort(cleaned, m) ==
    IF m = <<>> THEN cleaned
    ELSE Slice(cleaned, m[1], m[3]) \o Slice(cleaned, m[4], m[5])

WithPortMatch(cleaned) == DropPort(cleaned, PortMatch(cleaned))

CleanUri(cleaned) == WithPortMatch(ForceScheme(cleaned, FindFrom(cleaned, SchemeSep, 1)))

\* the three replace lines of clean_ioc
Unbracket(cleaned) ==
    SelectSeq(SelectSeq(Replace(Replace(cleaned, <<"[", ".", "]">>, <<".">>),
                                <<"[", ":", "]">>, <<":">>),
                        LAMBDA ch : ch # "["),
              LAMBDA ch : ch # "]")

\* the branch on ioc_type == 'URI'
UriPart(cleaned, ioc_type) == IF ioc_type = "URI" THEN CleanUri(cleaned) ELSE cleaned

\* the branch on ioc_type == 'File'
FilePart(cleaned, ioc_type) ==
    IF ioc_type = "File" THEN CollapseWhitespace(cleaned) ELSE cleaned

clean_ioc(ioc, ioc_type) == UriPart(Unbracket(FilePart(Strip(ioc), ioc_type)), ioc_type)

(***************************************************************************)
(* dict (insertion-ordered): a sequence of [k, v] entries.                 *)
(***************************************************************************)
DictKeys(d) == [j \in 1..Len(d) |-> d[j].k]
DictHas(d, key) == \E j \in 1..Len(d) : d[j].k = key
DictGet(d, key) == d[CHOOSE j \in 1..Len(d) : d[j].k = key].v
DictSet(d, key, val) ==
    IF DictHas(d, key)
    THEN [j \in 1..Len(d) |-> IF d[j].k = key THEN [k |-> key, v |-> val] ELSE d[j]]
    ELSE Append(d, [k |-> key, v |-> val])

(***************************************************************************)
(* The recognition rules.                                                  *)
(***************************************************************************)
\* repetition counts of the three hash rules of the registry
Sha256Len == 6
Sha1Len == 4
Md5Len == 3

\* r"\b[a-fA-F0-9]{n}\b"
HashRegex(n) == Cat(<<WB, Rep(Cls(HexChar), n, n), WB>>)

\* 25[0-5]|2[0-4][0-9]|[01]?[0-9][0-9]?
Octet ==
    Alt(<<Cat(<<Lit("2"), Lit("5"), Cls(Digit05)>>),
          Cat(<<Lit("2"), Cls(Digit04), Cls(Digit09)>>),
          Cat(<<Opt(Cls(Digit01)), Cls(Digit09), Opt(Cls(Digit09))>>)>>)
\* (?:\[\.\]|\.)
ObfDot == Alt(<<Word(<<"[", ".", "]">>), Lit(".")>>)
IpRegex == Cat(<<Rep(Cat(<<Octet, ObfDot>>), 3, 3), Octet>>)

\* a rule that re.compile rejects
BadRegex == [t |-> "bad"]

\* r'([a-zA-Z0-9/\]:.)])\s*\n\s*(?=[a-zA-Z0-9/\[(])'
stitching_pattern ==
    Cat(<<Cls(AlnumAZ \cup {"/", "]", ":", ".", ")"}),
          Star(Cls(WhiteSpace)), Lit("\n"), Star(Cls(WhiteSpace)),
          Look(Cls(AlnumAZ \cup {"/", "[", "("}))>>)

\* r'\b[a-zA-Z0-9][^\s<>"]*?\[:\]//(?:[^.,;\s<>\[\]]|[\[].{1,2}[\]])+'
uri_pattern ==
    Cat(<<WB, Cls(AlnumAZ),
          RepLazy(Neg(WhiteSpace \cup {"<", ">", "\""}), 0, Unbounded),
          Word(<<"[", ":", "]", "/", "/">>),
          Plus(Alt(<<Neg(WhiteSpace \cup {".", ",", ";", "<", ">", "[", "]"}),
                     Cat(<<Lit("["), Rep(Dot, 1, 2), Lit("]")>>)>>))>>)

LabelChar == AlnumAZ \cup {"-"}
\* r'\b[a-zA-Z0-9._%+-]+@(?:[a-zA-Z0-9-]+\.)*[a-zA-Z0-9-]+\[\.\][a-zA-Z]{2,}\b'
email_regex ==
    Cat(<<WB, Plus(Cls(AlnumAZ \cup {".", "_", "%", "+", "-"})), Lit("@"),
          Star(Cat(<<Plus(Cls(LabelChar)), Lit(".")>>)),
          Plus(Cls(LabelChar)), Word(<<"[", ".", "]">>),
          Rep(Cls(AlphaAZ), 2, Unbounded), WB>>)

\* r'\b[a-zA-Z0-9-]+(?:\[\.\][a-zA-Z0-9-]+)+\b'
dns_regex ==
    Cat(<<WB, Plus(Cls(LabelChar)),
          Plus(Cat(<<Word(<<"[", ".", "]">>), Plus(Cls(LabelChar))>>)), WB>>)

LQuote == "«"
RQuote == "»"
\* r'«([^»]+)»'
file_pattern == Cat(<<Lit(LQuote), Plus(Neg({RQuote})), Lit(RQuote)>>)

\* r'^[a-zA-Z]+$'
ext_pattern == Cat(<<Bol, Plus(Cls(AlphaAZ)), Eol>>)

(***************************************************************************)
(* ConfigManager: the registry.                                            *)
(***************************************************************************)
\* a rule of the registry that no code evaluates
Opaque(name) == [t |-> "opaque", of |-> name]

\* the rule of the category Registry; the backquote of its last class is
\* left out
\* r"(?:HKEY_[A-Z_]+|HKLM|HKCU|HKCR|HKU|HKCC)(?:\\[^\s\\]+)+?(?=[\s,;.!?)\]'\"]|$)"
registry_regex ==
    Cat(<<Alt(<<Cat(<<Word(<<"H", "K", "E", "Y", "_">>), Plus(Cls(UpperAZ \cup {"_"}))>>),
                Word(<<"H", "K", "L", "M">>), Word(<<"H", "K", "C", "U">>),
                Word(<<"H", "K", "C", "R">>), Word(<<"H", "K", "U">>),
                Word(<<"H", "K", "C", "C">>)>>),
          RepLazy(Cat(<<Lit("\\"), Plus(Neg(WhiteSpace \cup {"\\"}))>>), 1, Unbounded),
          Look(Alt(<<Cls(WhiteSpace \cup {",", ";", ".", "!", "?", ")", "]", "'", "\""}),
                     Eol>>))>>)

Dashes == "---------------"

Entry(name, regex, report_type, mp10, nad) ==
    [enabled |-> TRUE, name |-> name, regex |-> regex, report_type |-> report_type,
     nta_status |-> IF name \in {"SHA256", "SHA1"} THEN Dashes ELSE "",
     siem_tools_status |-> Dashes,
     siem_status |-> IF name \in {"DNS", "URI"} THEN Dashes ELSE "",
     mp10_templates |-> mp10, nad_templates |-> nad]

Placeholder == "{ioc}"

\* A template is the sequence of its pieces: its text around the placeholder
\* and the placeholder.  report_type is transliterated to ASCII.

DEFAULT_CONFIG ==
    <<Entry("IP", IpRegex, "IP-adres",
            <<<<"src.ip = \"", Placeholder, "\"">>,
              <<"dst.ip = \"", Placeholder, "\"">>>>,
            <<<<"src.ip == \"", Placeholder, "\"">>,
              <<"dst.ip == \"", Placeholder, "\"">>,
              <<"host.ip == \"", Placeholder, "\"">>>>),
      Entry("DNS", Opaque("DNS"), "Domen",
            <<<<"event_src.fqdn = \"", Placeholder, ".\"">>,
              <<"object.fullpath = \"", Placeholder, ".\"">>,
              <<"object.name = \"", Placeholder, ".\"">>,
              <<"subject.account.domain = \"", Placeholder, ".\"">>>>,
            <<<<"src.dns ~ \"", Placeholder, ".\"">>,
              <<"dst.dns ~ \"", Placeholder, ".\"">>,
              <<"http.rqs.url ~ \"", Placeholder, ".\"">>,
              <<"dns.query.rrname ~ \"", Placeholder, ".\"">>>>),
      Entry("URI", Opaque("URI"), "URI", <<>>, <<>>),
      Entry("SHA256", HashRegex(Sha256Len), "SHA256",
            <<<<"object.hash.sha256 = \"", Placeholder, "\"">>>>, <<>>),
      Entry("SHA1", HashRegex(Sha1Len), "SHA1",
            <<<<"object.hash.sha1 = \"", Placeholder, "\"">>>>, <<>>),
      Entry("MD5", HashRegex(Md5Len), "MD5",
            <<<<"object.hash.md5 = \"", Placeholder, "\"">>>>, <<>>),
      Entry("File", Opaque("File"), "File",
            <<<<"object.name CONTAINS \"", Placeholder, "\"">>,
              <<"object.path CONTAINS \"", Placeholder, "\"">>,
              <<"object.fullpath = \"", Placeholder, "\"">>>>,
            <<<<"files.filename ~ \"", Placeholder, "\"">>,
              <<"files.mime ~ \"", Placeholder, "\"">>>>),
      Entry("Email", Opaque("Email"), "Email", <<>>, <<>>),
      Entry("Registry", registry_regex, "Registry", <<>>, <<>>)>>

\* ConfigManager.get_enabled_iocs
get_enabled_iocs(config) == SelectSeq(config, LAMBDA ioc : ioc.enabled)

\* a variant of FirstEnabled that looks at the first entry of cfg only
FirstEnabledAtHead(cfg, name) ==
    IF cfg # <<>> /\ cfg[1].name = name /\ cfg[1].enabled THEN <<cfg[1]>> ELSE <<>>

\* the first entry of cfg named name that is enabled, as <<entry>>, or <<>>
\* (the `for ioc in self.ioc_config: if ioc['name'] == ... : ... break` loops)
FirstEnabled(cfg, name) ==
    LET hits == SelectSeq(cfg, LAMBDA ioc : ioc.name = name /\ ioc.enabled)
    IN  IF hits = <<>> THEN <<>> ELSE <<Head(hits)>>

(***************************************************************************)
(* Helpers of IOCParser.find_all_raw_matches.                              *)
(***************************************************************************)
\* code point order of the characters (without the backquote), for sorted()
\* on str keys
CodeOrder ==
    <<"\t", "\n", "\r", " ", "!", "\"", "#", "$", "%", "&", "'", "(", ")", "*", "+",
      ",", "-", ".", "/", "0", "1", "2", "3", "4", "5", "6", "7", "8", "9", ":", ";",
      "<", "=", ">", "?", "@", "A", "B", "C", "D", "E", "F", "G", "H", "I", "J", "K",
      "L", "M", "N", "O", "P", "Q", "R", "S", "T", "U", "V", "W", "X", "Y", "Z", "[",
      "\\", "]", "^", "_", "a", "b", "c", "d", "e", "f", "g", "h", "i", "j", "k",
      "l", "m", "n", "o", "p", "q", "r", "s", "t", "u", "v", "w", "x", "y", "z", "{",
      "|", "}", "~", "«", "»">>
Ord(c) == CHOOSE j \in 1..Len(CodeOrder) : CodeOrder[j] = c

RECURSIVE StrLess(_, _)
\* a < b on str
StrLess(a, b) ==
    IF b = <<>> THEN FALSE
    ELSE IF a = <<>> THEN TRUE
    ELSE IF Head(a) = Head(b) THEN StrLess(Tail(a), Tail(b))
    ELSE Ord(Head(a)) < Ord(Head(b))

RECURSIVE SortedByOriginal(_)
\* sorted(pairs, key=lambda x: x[0]): stable
SortedByOriginal(pairs) ==
    IF pairs = <<>> THEN <<>>
    ELSE LET n == Len(pairs)
             last == pairs[n]
             rest == SortedByOriginal(SubSeq(pairs, 1, n - 1))
             \* last goes after every element whose key is <= its key
             keep == SelectSeq(rest, LAMBDA x : ~StrLess(last[1], x[1]))
             after == SelectSeq(rest, LAMBDA x : StrLess(last[1], x[1]))
         IN  keep \o <<last>> \o after

UpperSeq == <<"A", "B", "C", "D", "E", "F", "G", "H", "I", "J", "K", "L", "M",
              "N", "O", "P", "Q", "R", "S", "T", "U", "V", "W", "X", "Y", "Z">>
LowerSeq == <<"a", "b", "c", "d", "e", "f", "g", "h", "i", "j", "k", "l", "m",
              "n", "o", "p", "q", "r", "s", "t", "u", "v", "w", "x", "y", "z">>
\* str.lower
Lower(s) ==
    [k \in 1..Len(s) |->
        IF s[k] \in UpperAZ
        THEN LowerSeq[CHOOSE j \in 1..Len(UpperSeq) : UpperSeq[j] = s[k]]
        ELSE s[k]]

EndsWith(s, suffix) ==
    /\ Len(suffix) <= Len(s)
    /\ SubSeq(s, Len(s) - Len(suffix) + 1, Len(s)) = suffix

RECURSIVE RFind(_, _, _)
\* the 1-based position of the last c in s at or before k, or 0
RFind(s, c, k) == IF k = 0 THEN 0 ELSE IF s[k] = c THEN k ELSE RFind(s, c, k - 1)

\* s.rsplit('.', 1)
RSplitDot(s) ==
    LET p == RFind(s, ".", Len(s))
    IN  IF p = 0 THEN <<s>> ELSE <<SubSeq(s, 1, p - 1), SubSeq(s, p + 1, Len(s))>>

ToSet(q) == {q[k] : k \in DOMAIN q}

\* the orders in which `for match in set(matches)` can visit the set
IterationOrders(S) ==
    {f \in [1..Cardinality(S) -> S] : \A i, j \in 1..Cardinality(S) : i # j => f[i] # f[j]}

(***************************************************************************)
(* The working buffer.  b.wt is working_text.  b.own and b.ovl record the  *)
(* history of the run: b.own[k] names the stage that blanked position k    *)
(* for a match it accepted ("" if none did), b.ovl says that some blanking *)
(* covered a position that an accepted match had consumed already.         *)
(***************************************************************************)
NewBuffer(text) == [wt |-> text, own |-> [k \in 1..Len(text) |-> ""], ovl |-> FALSE]

RECURSIVE Occurrences(_, _, _)
\* the positions covered by the occurrences that s.replace(sub, ...) replaces
Occurrences(s, sub, k) ==
    LET p == FindFrom(s, sub, k)
    IN  IF p = 0 THEN {} ELSE (p..(p + Len(sub) - 1)) \cup Occurrences(s, sub, p + Len(sub))

Mark(b, pos, who, wt) ==
    [wt |-> wt,
     own |-> [k \in 1..Len(b.own) |-> IF k \in pos /\ b.own[k] = "" THEN who ELSE b.own[k]],
     ovl |-> b.ovl \/ \E k \in pos : b.own[k] # ""]

\* working_text = working_text.replace(match, ' ' * len(match))
BlankAll(b, match, who) ==
    Mark(b, Occurrences(b.wt, match, 1), who, Replace(b.wt, match, Spaces(Len(match))))

\* working_text = working_text[:start] + ' ' * (end - start) + working_text[end:]
BlankSpan(b, start, end, who) ==
    Mark(b, (start + 1)..end, who,
         Slice(b.wt, 0, start) \o Spaces(end - start) \o Slice(b.wt, end, Len(b.wt)))

\* working_text = stitching_pattern.sub(r'\1', working_text)
Stitch(b) ==
    LET sp == FindIter(stitching_pattern, b.wt)
    IN  [wt |-> SubSpans(b.wt, sp, 1, 0), own |-> SubSpans(b.own, sp, 1, 0), ovl |-> b.ovl]

(***************************************************************************)
(* The stages of find_all_raw_matches, each for one iteration order.       *)
(***************************************************************************)
RECURSIVE HashLoopUnchecked(_, _, _, _)
\* a variant of HashLoop that accepts every match, without looking at
\* found_hash_strings
HashLoopUnchecked(order, k, st, hash_name) ==
    IF k > Len(order) THEN st
    ELSE HashLoopUnchecked(order, k + 1,
                           [b |-> BlankAll(st.b, order[k], hash_name),
                            found |-> st.found \cup {order[k]},
                            pairs |-> Append(st.pairs,
                                             <<order[k], clean_ioc(order[k], hash_name)>>)],
                           hash_name)

RECURSIVE HashLoop(_, _, _, _)
\* for match in set(matches): order[k..] are still to visit
\* st = [b, found, pairs]
HashLoop(order, k, st, hash_name) ==
    IF k > Len(order) THEN st
    ELSE LET match == order[k]
         IN  IF \E found \in st.found : Contains(found, match)
             THEN HashLoop(order, k + 1, st, hash_name)
             ELSE HashLoop(order, k + 1,
                           [b |-> BlankAll(st.b, match, hash_name),
                            found |-> st.found \cup {match},
                            pairs |-> Append(st.pairs, <<match, clean_ioc(match, hash_name)>>)],
                           hash_name)

RECURSIVE BlankEach(_, _, _, _)
\* the buffer after every match of order[k..] is blanked
BlankEach(b, order, k, who) ==
    IF k > Len(order) THEN b
    ELSE BlankEach(BlankAll(b, order[k], who), order, k + 1, who)

PairsOf(order, ioc_type) == [k \in 1..Len(order) |-> <<order[k], clean_ioc(order[k], ioc_type)>>]

RECURSIVE UriLoop(_, _, _)
\* for match in uri_matches: spans[k..] are still to visit
UriLoop(spans, k, st) ==
    IF k > Len(spans) THEN st
    ELSE LET original == Slice(st.b.wt, spans[k][1], spans[k][2])
         IN  UriLoop(spans, k + 1,
                     [b |-> BlankSpan(st.b, spans[k][1], spans[k][2], "URI"),
                      pairs |-> Append(st.pairs, <<original, clean_ioc(original, "URI")>>)])

\* sorted(..., key=lambda m: m.start(), reverse=True) of the finditer list
ReverseSeq(q) == [k \in 1..Len(q) |-> q[Len(q) + 1 - k]]

\* the lookback of the File stage
FileLookback == 20

\* whether the File stage accepts the candidate of span sp
FileAccepts(wt, sp, file_blacklist, filename_exclusions) ==
    LET filename == Slice(wt, sp[1] + 1, sp[2] - 1)
        start_pos == sp[1]
        from == IF start_pos - FileLookback > 0 THEN start_pos - FileLookback ELSE 0
        text_before == RStrip(Lower(Slice(wt, from, start_pos)))
        parts == RSplitDot(filename)
    IN  /\ ~\E w \in ToSet(file_blacklist) : EndsWith(text_before, w)
        /\ Strip(filename) \notin ToSet(filename_exclusions)
        /\ Len(parts) = 2
        /\ Strip(parts[1]) # <<>>
        /\ MatchAt(ext_pattern, Strip(parts[2]), 0) # NoMatch

\* file_pairs of step 6
FilePairs(wt, file_blacklist, filename_exclusions) ==
    LET ok == SelectSeq(FindIter(file_pattern, wt),
                        LAMBDA sp : FileAccepts(wt, sp, file_blacklist, filename_exclusions))
    IN  [k \in 1..Len(ok) |->
            LET filename == Slice(wt, ok[k][1] + 1, ok[k][2] - 1)
            IN  <<filename, clean_ioc(filename, "File")>>]

RECURSIVE FileBlank(_, _, _)
\* for original, _ in file_pairs: working_text.replace(f'«{original}»', ...)
FileBlank(b, pairs, k) ==
    IF k > Len(pairs) THEN b
    ELSE FileBlank(BlankAll(b, <<LQuote>> \o pairs[k][1] \o <<RQuote>>, "File"), pairs, k + 1)

(***************************************************************************)
(* ReportGenerator: the query compiler.                                    *)
(***************************************************************************)
RECURSIVE Flatten(_)
Flatten(qq) == IF qq = <<>> THEN <<>> ELSE Head(qq) \o Flatten(Tail(qq))

\* template.replace('{ioc}', ioc)
Substitute(template, ioc) ==
    Flatten([k \in 1..Len(template) |->
                IF template[k] = Placeholder THEN ioc ELSE <<template[k]>>])

RECURSIVE Join(_, _)
\* sep.join(queries)
Join(sep, queries) ==
    IF queries = <<>> THEN <<>>
    ELSE IF Len(queries) = 1 THEN queries[1]
    ELSE queries[1] \o <<sep>> \o Join(sep, Tail(queries))

OrMP10 == " OR "
OrNAD == " || "

\* " OR ".join([template.replace('{ioc}', ioc) for ioc in cleaned_iocs])
MergedQuery(template, cleaned_iocs, sep) ==
    Join(sep, [k \in 1..Len(cleaned_iocs) |-> Substitute(template, cleaned_iocs[k])])

\* a variant of GroupQueries that joins the NAD queries as the MP10 ones
GroupQueriesOneJoin(ioc_config_entry, cleaned_iocs) ==
    LET name == ioc_config_entry.name
        mp10 == ioc_config_entry.mp10_templates
        nad == ioc_config_entry.nad_templates
    IN  [k \in 1..Len(mp10) |->
            [ioc_name |-> name, system |-> "MP10",
             query |-> MergedQuery(mp10[k], cleaned_iocs, OrMP10), completed |-> FALSE]]
        \o
        [k \in 1..Len(nad) |->
            [ioc_name |-> name, system |-> "NAD",
             query |-> MergedQuery(nad[k], cleaned_iocs, OrMP10), completed |-> FALSE]]

\* group_queries for one registry entry
GroupQueries(ioc_config_entry, cleaned_iocs) ==
    LET name == ioc_config_entry.name
        mp10 == ioc_config_entry.mp10_templates
        nad == ioc_config_entry.nad_templates
    IN  [k \in 1..Len(mp10) |->
            [ioc_name |-> name, system |-> "MP10",
             query |-> MergedQuery(mp10[k], cleaned_iocs, OrMP10), completed |-> FALSE]]
        \o
        [k \in 1..Len(nad) |->
            [ioc_name |-> name, system |-> "NAD",
             query |-> MergedQuery(nad[k], cleaned_iocs, OrNAD), completed |-> FALSE]]

RECURSIVE QueryDataBackwards(_, _, _)
\* a variant of QueryDataFrom that puts the group of a category before the
\* groups of the categories before it
QueryDataBackwards(cfg, k, ioc_data) ==
    IF k > Len(cfg) THEN <<>>
    ELSE QueryDataBackwards(cfg, k + 1, ioc_data)
         \o (IF /\ cfg[k].enabled
                 /\ DictHas(ioc_data, cfg[k].name)
                 /\ DictGet(ioc_data, cfg[k].name) # <<>>
                 /\ cfg[k].mp10_templates \o cfg[k].nad_templates # <<>>
              THEN <<[group_name |-> <<cfg[k].name, " (", cfg[k].report_type, ")">>,
                      queries |-> GroupQueries(cfg[k],
                                     [j \in 1..Len(DictGet(ioc_data, cfg[k].name)) |->
                                         DictGet(ioc_data, cfg[k].name)[j][2]])]>>
              ELSE <<>>)

RECURSIVE QueryDataFrom(_, _, _)
\* the loop of generate_query_data over self.ioc_config[k..]
QueryDataFrom(cfg, k, ioc_data) ==
    IF k > Len(cfg) THEN <<>>
    ELSE LET e == cfg[k]
             has == e.enabled /\ DictHas(ioc_data, e.name) /\ DictGet(ioc_data, e.name) # <<>>
             vals == DictGet(ioc_data, e.name)
             cleaned_iocs == [j \in 1..Len(vals) |-> vals[j][2]]
             group_queries == GroupQueries(e, cleaned_iocs)
         IN  (IF has /\ group_queries # <<>>
              THEN <<[group_name |-> <<e.name, " (", e.report_type, ")">>,
                      queries |-> group_queries]>>
              ELSE <<>>)
             \o QueryDataFrom(cfg, k + 1, ioc_data)

generate_query_data(cfg, ioc_data) == QueryDataFrom(cfg, 1, ioc_data)

\* '=' * 80
Rule80 == "================================================================================"
\* the headings of the queries file (transliterated)
ReportTitle == "POISKOVYE ZAPROSY DLYA IOC"
ForMP10 == "Dlya MP10"
ForNAD == "Dlya NAD"

\* f"--- {{{name}}} ---"
CategoryHeading(name) == <<"--- {", name, "} ---">>

\* a variant of TemplateLines that writes the expressions of the templates
\* last template first
TemplateLinesLastFirst(heading, templates, cleaned_iocs, sep) ==
    IF templates = <<>> THEN <<>>
    ELSE <<<<heading>>>>
         \o [k \in 1..Len(templates) |->
                MergedQuery(templates[Len(templates) + 1 - k], cleaned_iocs, sep)]
         \o <<<<>>>>

\* the lines that generate_queries_report adds for one list of templates
TemplateLines(heading, templates, cleaned_iocs, sep) ==
    IF templates = <<>> THEN <<>>
    ELSE <<<<heading>>>>
         \o [k \in 1..Len(templates) |-> MergedQuery(templates[k], cleaned_iocs, sep)]
         \o <<<<>>>>

RECURSIVE ReportLinesFrom(_, _, _)
\* the loop of generate_queries_report over self.ioc_config[k..]
ReportLinesFrom(cfg, k, ioc_data) ==
    IF k > Len(cfg) THEN <<>>
    ELSE LET e == cfg[k]
             has == e.enabled /\ DictHas(ioc_data, e.name) /\ DictGet(ioc_data, e.name) # <<>>
             vals == DictGet(ioc_data, e.name)
             cleaned_iocs == [j \in 1..Len(vals) |-> vals[j][2]]
         IN  (IF has
              THEN <<<<"\n", Rule80>>, CategoryHeading(e.name), <<Rule80, "\n">>>>
                   \o TemplateLines(ForMP10, e.mp10_templates, cleaned_iocs, OrMP10)
                   \o TemplateLines(ForNAD, e.nad_templates, cleaned_iocs, OrNAD)
              ELSE <<>>)
             \o ReportLinesFrom(cfg, k + 1, ioc_data)

\* the lines generate_queries_report writes to output_path
generate_queries_report(cfg, ioc_data) ==
    <<<<Rule80>>, <<ReportTitle>>, <<Rule80>>, <<>>>> \o ReportLinesFrom(cfg, 1, ioc_data)

(***************************************************************************)
(* Inputs.                                                                  *)
(***************************************************************************)
\* the combined text is a concatenation of at most MaxTokens tokens
MaxTokens == 2
\* process_files is called at most MaxRuns times
MaxRuns == 2

HexRun(c, n) == [k \in 1..n |-> c]
Md5Tok == HexRun("a", Md5Len)
Sha1Tok == Md5Tok \o HexRun("b", Sha1Len - Md5Len)
Sha256Tok == Sha1Tok \o HexRun("c", Sha256Len - Sha1Len)

IpTok == <<"1", ".", "1", ".", "1", ".", "1">>
IpObfTok == <<"1", "[", ".", "]", "1", "[", ".", "]", "1", "[", ".", "]", "1">>
UriTok == <<"h", "[", ":", "]", "/", "/", "e", "[", ".", "]", "g">>
EmailTok == <<"u", "@", "m", "[", ".", "]", "r", "u">>
DnsTok == <<"e", "[", ".", "]", "g">>
FileTailTok == <<"r", ".", "p", "d", "f", RQuote>>

Tokens ==
    <<<<" ">>,
      <<LQuote>>,
      <<LQuote>> \o IpTok,
      FileTailTok,
      IpTok \o <<" ">>,
      IpObfTok,
      Md5Tok,
      Sha1Tok \o <<" ">>,
      Sha256Tok,
      UriTok \o <<" ">>,
      EmailTok,
      <<"\n">> \o DnsTok>>

Texts ==
    {Flatten([k \in DOMAIN f |-> Tokens[f[k]]]) :
        f \in UNION {[1..m -> 1..Len(Tokens)] : m \in 0..MaxTokens}}

\* DEFAULT_CONFIG with the categories of off disabled and the rule of the
\* category bad (if any) replaced by one that does not compile
Registry(off, bad) ==
    [k \in 1..Len(DEFAULT_CONFIG) |->
        [DEFAULT_CONFIG[k] EXCEPT
            !.enabled = DEFAULT_CONFIG[k].name \notin off,
            !.regex = IF DEFAULT_CONFIG[k].name = bad THEN BadRegex ELSE @]]

AllNames == {DEFAULT_CONFIG[k].name : k \in 1..Len(DEFAULT_CONFIG)}

Registries ==
    {Registry({}, ""),
     Registry({"URI", "File", "SHA256", "MD5", "IP", "Email", "DNS"}, ""),
     Registry({}, "SHA1"),
     Registry(AllNames, ""),
     ReverseSeq(Registry({}, ""))}

(***************************************************************************)
(* The file at config_path.  Its content is missing, unparsable, or a JSON *)
(* value: a scalar, or a list of items, each a scalar or a dict.           *)
(***************************************************************************)
Json(t, v) == [t |-> t, v |-> v]

\* the file that json.dump(self.config_data, f) writes
Stored(config) == Json("list", [k \in 1..Len(config) |-> Json("dict", config[k])])

required_fields ==
    {"enabled", "name", "regex", "report_type", "nta_status", "siem_tools_status",
     "siem_status", "mp10_templates", "nad_templates"}

\* _validate_config for self.config_data = json.load(f)
\* a variant of _validate_config that does not look for the required fields
ValidateShapeOnly(loaded) ==
    /\ loaded.t = "list"
    /\ \A k \in 1..Len(loaded.v) : loaded.v[k].t = "dict"

_validate_config(loaded) ==
    /\ loaded.t = "list"
    /\ \A k \in 1..Len(loaded.v) :
           /\ loaded.v[k].t = "dict"
           /\ \A field \in required_fields : field \in DOMAIN loaded.v[k].v

\* the value of self.config_data for a loaded list of dicts
Loaded(loaded) == [k \in 1..Len(loaded.v) |-> loaded.v[k].v]

NoCall == [op |-> "", args |-> <<>>, before |-> <<>>, file_before |-> Json("missing", <<>>),
           returned |-> "", saved |-> "", n |-> 0]

NoUris == [uris |-> <<>>, returned |-> <<>>, done |-> FALSE]

\* no second run
NoConc == [phase |-> "", id |-> 0, texts |-> <<>>, registry |-> <<>>, alone |-> <<>>,
           parked |-> <<>>, mixed |-> FALSE]

(***************************************************************************)
(* State.                                                                   *)
(***************************************************************************)
VARIABLES
    config_data,          \* ConfigManager.config_data
    text,                 \* the combined text of the selected files
    pc,                   \* where process_files stands
    ioc_config,           \* IOCParser.ioc_config
    file_blacklist,       \* IOCParser.file_blacklist
    filename_exclusions,  \* IOCParser.filename_exclusions
    buf,                  \* working_text, with the history of its blanking
    found_hash_strings,
    raw_matches,
    result,               \* what process_files returned last
    prev_result,          \* what the call before that returned
    runs,                 \* calls of process_files so far
    selected_files,       \* AppController.selected_files at the last process_files
    last_ioc_data,        \* AppController.last_ioc_data
    last_query_data,      \* AppController.last_query_data
    report_result,        \* what generate_reports returned last
    queries_file,         \* the lines of the queries file, once it is written
    config_file,          \* what the file at config_path holds
    cfg_call,             \* the last call of a method of the registry
    conc,                 \* two runs of parse at once: the run that is not executing
    uri_call,             \* a call of _smart_clean_uri: its argument and what it returned
    clean_in,             \* the arguments ioc and ioc_type of a call of clean_ioc
    clean_type,
    clean_out             \* what clean_ioc returned, and what it returned for that

vars == <<config_data, text, pc, ioc_config, file_blacklist, filename_exclusions, buf,
          found_hash_strings, raw_matches, result, prev_result, runs, last_ioc_data,
          last_query_data, report_result, queries_file, clean_in, clean_type, clean_out,
          config_file, cfg_call, selected_files, conc, uri_call>>

parser == <<ioc_config, file_blacklist, filename_exclusions>>
controller == <<selected_files, last_ioc_data, last_query_data, report_result, queries_file>>
inputs == <<config_data, text, clean_in, clean_type, clean_out, config_file, cfg_call, conc,
            uri_call>>
run == <<pc, buf, found_hash_strings, raw_matches, result, prev_result, runs>>

\* None is <<>>, any other value v is <<v>>
None == <<>>
Some(v) == <<v>>

Stages == <<"SHA256", "SHA1", "MD5", "stitch", "URI", "IP", "Email", "File", "DNS", "fill">>
StageAfter(p) == Stages[(CHOOSE k \in 1..Len(Stages) : Stages[k] = p) + 1]

Init ==
    /\ config_data \in Registries
    /\ text \in Texts
    /\ pc = "idle"
    /\ ioc_config = <<>>
    /\ file_blacklist = <<>>
    /\ filename_exclusions = <<>>
    /\ buf = NewBuffer(<<>>)
    /\ found_hash_strings = {}
    /\ raw_matches = <<>>
    /\ result = None
    /\ prev_result = None
    /\ runs = 0
    /\ selected_files = <<>>
    /\ last_ioc_data = None
    /\ last_query_data = None
    /\ report_result = None
    /\ queries_file = None
    /\ clean_in = <<>>
    /\ clean_type = ""
    /\ clean_out = <<>>
    /\ config_file = Stored(config_data)
    /\ cfg_call = NoCall
    /\ conc = NoConc
    /\ uri_call = NoUris

\* ioc.get(field, [])
GetOr(ioc, field) == IF field \in DOMAIN ioc THEN ioc[field] ELSE <<>>

\* `except Exception` of process_files: return False, None
Raise ==
    /\ pc' = "returned"
    /\ result' = Some([success |-> FALSE, ioc_data |-> None])
    /\ UNCHANGED <<buf, found_hash_strings, raw_matches, last_ioc_data>>

\* IOCParser.__init__ and the start of find_all_raw_matches
StartParser(enabled_iocs, files) ==
    /\ pc' = "SHA256"
    /\ ioc_config' = enabled_iocs
    /\ file_blacklist' = IF files = <<>> THEN <<>> ELSE GetOr(Head(files), "file_blacklist")
    /\ filename_exclusions' =
           IF files = <<>> THEN <<>> ELSE GetOr(Head(files), "filename_exclusions")
    /\ buf' = NewBuffer(text)
    /\ found_hash_strings' = {}
    /\ raw_matches' = <<>>
    /\ UNCHANGED result

\* validate_files finds no enabled category: return False, None
Invalid ==
    /\ pc' = "returned"
    /\ result' = Some([success |-> FALSE, ioc_data |-> None])
    /\ UNCHANGED <<parser, buf, found_hash_strings, raw_matches>>

\* the selected files: "doc" is the document that holds text, "bad" exists
\* with the extension .docx and cannot be read as a document
SelectedFiles == {<<"doc">>, <<"doc", "bad">>, <<"bad", "doc">>}

\* extract_text_from_docx raises for a file of extract_from_files, after
\* IOCParser(enabled_iocs): `except Exception` of process_files
ExtractRaises(enabled_iocs, files) ==
    /\ pc' = "returned"
    /\ result' = Some([success |-> FALSE, ioc_data |-> None])
    /\ ioc_config' = enabled_iocs
    /\ file_blacklist' = IF files = <<>> THEN <<>> ELSE GetOr(Head(files), "file_blacklist")
    /\ filename_exclusions' =
           IF files = <<>> THEN <<>> ELSE GetOr(Head(files), "filename_exclusions")
    /\ UNCHANGED <<buf, found_hash_strings, raw_matches>>

Validate(enabled_iocs, files) ==
    IF enabled_iocs = <<>> THEN Invalid
    ELSE IF \E k \in 1..Len(files) : files[k] = "bad"
    THEN ExtractRaises(enabled_iocs, SelectSeq(enabled_iocs, LAMBDA ioc : ioc.name = "File"))
    ELSE StartParser(enabled_iocs, SelectSeq(enabled_iocs, LAMBDA ioc : ioc.name = "File"))

\* process_files up to the call of find_all_raw_matches: validate_files,
\* get_enabled_iocs, IOCParser(enabled_iocs), extract_from_files
ProcessFiles ==
    /\ pc \in {"idle", "returned", "reported"}
    /\ runs < MaxRuns
    /\ runs' = runs + 1
    /\ prev_result' = result
    /\ report_result' = None
    /\ \E files \in SelectedFiles :
           /\ selected_files' = files
           /\ Validate(get_enabled_iocs(config_data), files)
    /\ UNCHANGED <<inputs, last_ioc_data, last_query_data, queries_file>>

\* the state after a stage: buffer b, found_hash_strings found, and the
\* list pairs stored under name
Commit(b, found, name, pairs) ==
    /\ buf' = b
    /\ found_hash_strings' = found
    /\ raw_matches' = DictSet(raw_matches, name, pairs)
    /\ pc' = StageAfter(pc)
    /\ UNCHANGED result

Skip ==
    /\ pc' = StageAfter(pc)
    /\ UNCHANGED <<buf, found_hash_strings, raw_matches, result>>

\* raw_matches[hash_name].extend(hash_pairs)
HashCommit(st, old) == Commit(st.b, st.found, pc, old \o st.pairs)

HashRun(hit) ==
    IF hit = <<>> THEN Skip
    ELSE IF hit[1].regex.t = BadRegex.t THEN Raise
    ELSE \E order \in IterationOrders(ToSet(FindAll(hit[1].regex, buf.wt))) :
            HashCommit(HashLoop(order, 1,
                                [b |-> buf, found |-> found_hash_strings, pairs |-> <<>>], pc),
                       IF DictHas(raw_matches, pc) THEN DictGet(raw_matches, pc) ELSE <<>>)

\* step 1, one hash_name of hash_order
HashStage ==
    /\ pc \in {"SHA256", "SHA1", "MD5"}
    /\ HashRun(FirstEnabled(ioc_config, pc))
    /\ UNCHANGED <<inputs, parser, controller, prev_result, runs>>

\* step 2
StitchStage ==
    /\ pc = "stitch"
    /\ buf' = Stitch(buf)
    /\ pc' = StageAfter(pc)
    /\ UNCHANGED <<inputs, parser, controller, found_hash_strings, raw_matches, result,
                   prev_result, runs>>

UriCommit(st) == Commit(st.b, found_hash_strings, "URI", SortedByOriginal(st.pairs))

\* step 3
UriStage ==
    /\ pc = "URI"
    /\ UriCommit(UriLoop(ReverseSeq(FindIter(uri_pattern, buf.wt)), 1,
                         [b |-> buf, pairs |-> <<>>]))
    /\ UNCHANGED <<inputs, parser, controller, prev_result, runs>>

\* the loop `for match in set(matches)` of steps 4, 5 and 7, visiting order
SetCommit(order, name) ==
    Commit(BlankEach(buf, order, 1, name), found_hash_strings, name, PairsOf(order, name))

IpRun(hit) ==
    IF hit = <<>> THEN Commit(buf, found_hash_strings, "IP", <<>>)
    ELSE IF hit[1].regex.t = BadRegex.t THEN Raise
    ELSE \E order \in IterationOrders(ToSet(FindAll(hit[1].regex, buf.wt))) :
            SetCommit(order, "IP")

\* step 4
IpStage ==
    /\ pc = "IP"
    /\ IpRun(FirstEnabled(ioc_config, "IP"))
    /\ UNCHANGED <<inputs, parser, controller, prev_result, runs>>

\* step 5
EmailStage ==
    /\ pc = "Email"
    /\ IF FirstEnabled(ioc_config, "Email") = <<>>
       THEN Commit(buf, found_hash_strings, "Email", <<>>)
       ELSE \E order \in IterationOrders(ToSet(FindAll(email_regex, buf.wt))) :
                SetCommit(order, "Email")
    /\ UNCHANGED <<inputs, parser, controller, prev_result, runs>>

FileCommit(file_pairs) ==
    Commit(FileBlank(buf, file_pairs, 1), found_hash_strings, "File", file_pairs)

\* step 6
FileStage ==
    /\ pc = "File"
    /\ FileCommit(FilePairs(buf.wt, file_blacklist, filename_exclusions))
    /\ UNCHANGED <<inputs, parser, controller, prev_result, runs>>

\* step 7
DnsStage ==
    /\ pc = "DNS"
    /\ IF FirstEnabled(ioc_config, "DNS") = <<>>
       THEN Commit(buf, found_hash_strings, "DNS", <<>>)
       ELSE \E order \in IterationOrders(ToSet(FindAll(dns_regex, buf.wt))) :
                SetCommit(SelectSeq(order, LAMBDA m : ~Contains(m, <<"@">>)), "DNS")
    /\ UNCHANGED <<inputs, parser, controller, prev_result, runs>>

RECURSIVE FillMissing(_, _, _)
\* for ioc in self.ioc_config: if name not in ioc_results: ioc_results[name] = []
FillMissing(ioc_results, cfg, k) ==
    IF k > Len(cfg) THEN ioc_results
    ELSE FillMissing(IF DictHas(ioc_results, cfg[k].name) THEN ioc_results
                     ELSE DictSet(ioc_results, cfg[k].name, <<>>),
                     cfg, k + 1)

ReturnData(ioc_data) ==
    /\ raw_matches' = ioc_data
    /\ last_ioc_data' = Some(ioc_data)
    /\ result' = Some([success |-> TRUE, ioc_data |-> Some(ioc_data)])

\* the rest of parse and of process_files
ParseReturn ==
    /\ pc = "fill"
    /\ ReturnData(FillMissing(raw_matches, ioc_config, 1))
    /\ pc' = "returned"
    /\ UNCHANGED <<inputs, parser, buf, found_hash_strings, prev_result, runs,
                   selected_files, last_query_data, report_result, queries_file>>

RECURSIVE TotalIocs(_)
TotalIocs(ioc_data) ==
    IF ioc_data = <<>> THEN 0 ELSE Len(Head(ioc_data).v) + TotalIocs(Tail(ioc_data))

\* what generate_reports returns, (success, queries_path or None), with what
\* became of the two files: "" while the writer was not called
Returns(success, queries_path, xlsx, queries) ==
    Some([success |-> success, queries_path |-> queries_path, xlsx |-> xlsx,
          queries |-> queries])

\* generate_reports(ioc_data, output_xlsx_path), the two writers succeeding
\* or failing
generate_reports(ioc_data, xlsx_success, queries_success) ==
    IF ioc_data = <<>> \/ TotalIocs(ioc_data) = 0
    THEN /\ report_result' = Returns(FALSE, FALSE, "", "")
         /\ UNCHANGED <<last_query_data, queries_file>>
    ELSE IF ~xlsx_success
    THEN /\ report_result' = Returns(FALSE, FALSE, "failed", "")
         /\ UNCHANGED <<last_query_data, queries_file>>
    ELSE IF ~queries_success
    THEN /\ report_result' = Returns(TRUE, FALSE, "written", "failed")
         /\ UNCHANGED <<last_query_data, queries_file>>
    ELSE /\ report_result' = Returns(TRUE, TRUE, "written", "written")
         /\ queries_file' =
                Some(generate_queries_report(get_enabled_iocs(config_data), ioc_data))
         /\ last_query_data' =
                Some(generate_query_data(get_enabled_iocs(config_data), ioc_data))

\* MainTab._generate_reports after a successful process_files
GenerateReports ==
    /\ pc = "returned"
    /\ result # None /\ result[1].success
    /\ \E xlsx_success, queries_success \in BOOLEAN :
           generate_reports(result[1].ioc_data[1], xlsx_success, queries_success)
    /\ pc' = "reported"
    /\ UNCHANGED <<inputs, parser, buf, found_hash_strings, raw_matches, result,
                   prev_result, runs, selected_files, last_ioc_data>>

(***************************************************************************)
(* clean_ioc on its own: the call clean_ioc(clean_in, clean_type), then    *)
(* clean_ioc on what it returned.                                           *)
(***************************************************************************)
\* clean_in is a concatenation of at most MaxCleanTokens of CleanTokens
MaxCleanTokens == 3

CleanTokens ==
    <<<<" ">>, <<"[">>, <<"]">>, <<".">>, <<"a">>, <<"x", ":", "/", "/", "h">>,
      <<":", "8", "0">>, <<"/">>>>

CleanInputs ==
    {Flatten([k \in DOMAIN f |-> CleanTokens[f[k]]]) :
        f \in UNION {[1..m -> 1..Len(CleanTokens)] : m \in 0..MaxCleanTokens}}

CleanTypes == {"IP", "File", "URI"}

CleanInit ==
    /\ config_data = Registry({}, "")
    /\ text = <<>>
    /\ pc = "clean"
    /\ ioc_config = <<>>
    /\ file_blacklist = <<>>
    /\ filename_exclusions = <<>>
    /\ buf = NewBuffer(<<>>)
    /\ found_hash_strings = {}
    /\ raw_matches = <<>>
    /\ result = None
    /\ prev_result = None
    /\ runs = 0
    /\ selected_files = <<>>
    /\ last_ioc_data = None
    /\ last_query_data = None
    /\ report_result = None
    /\ queries_file = None
    /\ clean_in \in CleanInputs
    /\ clean_type \in CleanTypes
    /\ clean_out = <<>>
    /\ config_file = Stored(config_data)
    /\ cfg_call = NoCall
    /\ conc = NoConc
    /\ uri_call = NoUris

CleanOnce ==
    /\ pc = "clean"
    /\ clean_out = <<>>
    /\ clean_out' = <<clean_ioc(clean_in, clean_type)>>
    /\ UNCHANGED <<config_data, text, clean_in, clean_type, parser, run, controller,
                   config_file, cfg_call, conc, uri_call>>

CleanAgain ==
    /\ pc = "clean"
    /\ Len(clean_out) = 1
    /\ clean_out' = Append(clean_out, clean_ioc(clean_out[1], clean_type))
    /\ UNCHANGED <<config_data, text, clean_in, clean_type, parser, run, controller,
                   config_file, cfg_call, conc, uri_call>>

CleanNext == CleanOnce \/ CleanAgain

CleanSpec == CleanInit /\ [][CleanNext]_vars

(***************************************************************************)
(* The registry on its own: ConfigManager is constructed over the file at  *)
(* config_path, then its methods are called.                                *)
(***************************************************************************)
\* the stored lists have at most MaxStored items, of StoredItems
MaxStored == 2
\* at most MaxConfigOps calls follow the construction
MaxConfigOps == 2

StoredItems ==
    <<Json("dict", DEFAULT_CONFIG[1]),
      Json("dict", [DEFAULT_CONFIG[6] EXCEPT !.enabled = FALSE]),
      Json("dict", [field \in required_fields \ {"regex"} |-> DEFAULT_CONFIG[1][field]]),
      Json("scalar", <<>>)>>

StoredFiles ==
    {Json("missing", <<>>), Json("unparsable", <<>>), Json("scalar", <<>>)}
    \cup {Json("list", [k \in DOMAIN f |-> StoredItems[f[k]]]) :
            f \in UNION {[1..m -> 1..Len(StoredItems)] : m \in 0..MaxStored}}

rest == <<text, parser, buf, found_hash_strings, raw_matches, result, prev_result, runs,
          controller, clean_in, clean_type, clean_out, conc, uri_call>>

ConfigInit ==
    /\ config_data = <<>>
    /\ config_file \in StoredFiles
    /\ cfg_call = NoCall
    /\ conc = NoConc
    /\ uri_call = NoUris
    /\ pc = "config_new"
    /\ text = <<>>
    /\ ioc_config = <<>>
    /\ file_blacklist = <<>>
    /\ filename_exclusions = <<>>
    /\ buf = NewBuffer(<<>>)
    /\ found_hash_strings = {}
    /\ raw_matches = <<>>
    /\ result = None
    /\ prev_result = None
    /\ runs = 0
    /\ selected_files = <<>>
    /\ last_ioc_data = None
    /\ last_query_data = None
    /\ report_result = None
    /\ queries_file = None
    /\ clean_in = <<>>
    /\ clean_type = ""
    /\ clean_out = <<>>

\* the record of a call on the registry as it is now
Call(op, args, returned, saved) ==
    [op |-> op, args |-> args, before |-> config_data, file_before |-> config_file,
     returned |-> returned, saved |-> saved, n |-> cfg_call.n + 1]

\* ConfigManager.save_config for self.config_data = config: the file after
\* it, written or not
save_config(config, written) == IF written THEN Stored(config) ELSE config_file

\* _create_default_config
_create_default_config(written) ==
    /\ config_data' = DEFAULT_CONFIG
    /\ config_file' = save_config(DEFAULT_CONFIG, written)
    /\ cfg_call' = Call("__init__", <<>>, "None", IF written THEN "saved" ELSE "failed")

\* _load_or_create_config
_load_or_create_config(written) ==
    IF config_file.t \in {"missing", "unparsable"} THEN _create_default_config(written)
    ELSE IF ~_validate_config(config_file) THEN _create_default_config(written)
    ELSE /\ config_data' = Loaded(config_file)
         /\ cfg_call' = Call("__init__", <<>>, "None", "")
         /\ UNCHANGED config_file

\* ConfigManager.__init__
ConfigManagerInit ==
    /\ pc = "config_new"
    /\ pc' = "config"
    /\ \E written \in BOOLEAN : _load_or_create_config(written)
    /\ UNCHANGED rest

\* the position of self.config_data[i] in a list of n items, 0 for IndexError
PyPos(n, i) ==
    IF 0 <= i /\ i < n THEN i + 1 ELSE IF 0 - n <= i /\ i < 0 THEN n + i + 1 ELSE 0

\* a variant of move_ioc that refuses the target 0
MoveIocNotToFront(index, direction) ==
    IF 0 < index + direction /\ index + direction < Len(config_data)
          /\ PyPos(Len(config_data), index) # 0
    THEN /\ config_data' =
                [config_data EXCEPT
                    ![PyPos(Len(config_data), index)] = config_data[index + direction + 1],
                    ![index + direction + 1] = config_data[PyPos(Len(config_data), index)]]
         /\ cfg_call' = Call("move_ioc", <<index, direction>>, "True", "")
    ELSE /\ cfg_call' = Call("move_ioc", <<index, direction>>, "False", "")
         /\ UNCHANGED config_data

\* ConfigManager.move_ioc
move_ioc(index, direction) ==
    IF 0 <= index + direction /\ index + direction < Len(config_data)
    THEN IF PyPos(Len(config_data), index) = 0
         THEN /\ cfg_call' = Call("move_ioc", <<index, direction>>, "IndexError", "")
              /\ UNCHANGED config_data
         ELSE /\ config_data' =
                     [config_data EXCEPT
                         ![PyPos(Len(config_data), index)] = config_data[index + direction + 1],
                         ![index + direction + 1] = config_data[PyPos(Len(config_data), index)]]
              /\ cfg_call' = Call("move_ioc", <<index, direction>>, "True", "")
    ELSE /\ cfg_call' = Call("move_ioc", <<index, direction>>, "False", "")
         /\ UNCHANGED config_data

MoveIndexes == {0 - 1, 0, 1, Len(config_data) - 1, Len(config_data)}
MoveDirections == {0 - 1, 1, 2}

\* AppController.move_ioc_priority
MoveIocPriority ==
    /\ pc = "config"
    /\ cfg_call.n <= MaxConfigOps
    /\ \E index \in MoveIndexes, direction \in MoveDirections : move_ioc(index, direction)
    /\ UNCHANGED <<pc, config_file, rest>>

\* dict.update
DictUpdate(d, other) ==
    [field \in DOMAIN d \cup DOMAIN other |->
        IF field \in DOMAIN other THEN other[field] ELSE d[field]]

\* ConfigManager.update_ioc
update_ioc(index, updated_data) ==
    IF 0 <= index /\ index < Len(config_data)
    THEN /\ config_data' =
                [config_data EXCEPT ![index + 1] = DictUpdate(config_data[index + 1], updated_data)]
         /\ cfg_call' = Call("update_ioc", <<index>>, "True", "")
    ELSE /\ cfg_call' = Call("update_ioc", <<index>>, "False", "")
         /\ UNCHANGED config_data

Updates == {[enabled |-> FALSE], [name |-> "IP"]}

UpdateIoc ==
    /\ pc = "config"
    /\ cfg_call.n <= MaxConfigOps
    /\ \E index \in {0, 1, Len(config_data)}, updated_data \in Updates :
           update_ioc(index, updated_data)
    /\ UNCHANGED <<pc, config_file, rest>>

SavedConfigs ==
    {<<>>, <<DEFAULT_CONFIG[2], DEFAULT_CONFIG[1]>>, <<DEFAULT_CONFIG[1], DEFAULT_CONFIG[1]>>}

\* AppController.save_config
SaveConfig ==
    /\ pc = "config"
    /\ cfg_call.n <= MaxConfigOps
    /\ \E updated_config \in SavedConfigs, written \in BOOLEAN :
           /\ config_data' = updated_config
           /\ config_file' = save_config(updated_config, written)
           /\ cfg_call' = Call("save_config", <<>>, IF written THEN "True" ELSE "False",
                               IF written THEN "saved" ELSE "failed")
    /\ UNCHANGED <<pc, rest>>

ConfigNext == ConfigManagerInit \/ MoveIocPriority \/ UpdateIoc \/ SaveConfig

ConfigSpec == ConfigInit /\ [][ConfigNext]_vars

(***************************************************************************)
(* Two runs of parse at once, on two texts and one registry.  Each run is  *)
(* a call of find_all_raw_matches on a parser of its own; the variables of *)
(* the pipeline hold the frame of the run that is executing, conc.parked   *)
(* the frame of the other one.  Before the two runs are interleaved each   *)
(* text is parsed alone, for reference.                                    *)
(***************************************************************************)
\* the texts of the two runs have at most MaxConcTokens tokens of ConcTokens
MaxConcTokens == 1

ConcTokens == <<Md5Tok, Sha256Tok, <<LQuote>> \o IpTok, UriTok \o <<" ">>>>

ConcTexts ==
    {Flatten([k \in DOMAIN f |-> ConcTokens[f[k]]]) :
        f \in UNION {[1..m -> 1..Len(ConcTokens)] : m \in 0..MaxConcTokens}}

ConcRegistries == {Registry({}, ""), Registry({}, "SHA1")}

\* the frame of a call of IOCParser(enabled_iocs).parse on the text t, at
\* the first stage
FreshFrame(t, enabled_iocs, files) ==
    [text |-> t, pc |-> "SHA256", ioc_config |-> enabled_iocs,
     file_blacklist |-> IF files = <<>> THEN <<>> ELSE GetOr(Head(files), "file_blacklist"),
     filename_exclusions |->
         IF files = <<>> THEN <<>> ELSE GetOr(Head(files), "filename_exclusions"),
     buf |-> NewBuffer(t), found_hash_strings |-> {}, raw_matches |-> <<>>,
     result |-> None]

FrameOf(t, registry) ==
    FreshFrame(t, get_enabled_iocs(registry),
               SelectSeq(get_enabled_iocs(registry), LAMBDA ioc : ioc.name = "File"))

\* the frame of the run that is executing
ActiveFrame ==
    [text |-> text, pc |-> pc, ioc_config |-> ioc_config, file_blacklist |-> file_blacklist,
     filename_exclusions |-> filename_exclusions, buf |-> buf,
     found_hash_strings |-> found_hash_strings, raw_matches |-> raw_matches,
     result |-> result]

\* frame is the frame of the run that is executing
Holds(frame) ==
    /\ text = frame.text
    /\ pc = frame.pc
    /\ ioc_config = frame.ioc_config
    /\ file_blacklist = frame.file_blacklist
    /\ filename_exclusions = frame.filename_exclusions
    /\ buf = frame.buf
    /\ found_hash_strings = frame.found_hash_strings
    /\ raw_matches = frame.raw_matches
    /\ result = frame.result

\* the run of frame starts or goes on
Load(frame) ==
    /\ text' = frame.text
    /\ pc' = frame.pc
    /\ ioc_config' = frame.ioc_config
    /\ file_blacklist' = frame.file_blacklist
    /\ filename_exclusions' = frame.filename_exclusions
    /\ buf' = frame.buf
    /\ found_hash_strings' = frame.found_hash_strings
    /\ raw_matches' = frame.raw_matches
    /\ result' = frame.result

\* a variant of SwitchTo in which found_hash_strings is not a local of the
\* call: the two runs work on one set
SwitchSharingFound(frame) ==
    /\ text' = frame.text
    /\ pc' = frame.pc
    /\ ioc_config' = frame.ioc_config
    /\ file_blacklist' = frame.file_blacklist
    /\ filename_exclusions' = frame.filename_exclusions
    /\ buf' = frame.buf
    /\ found_hash_strings' = found_hash_strings
    /\ raw_matches' = frame.raw_matches
    /\ result' = frame.result

\* the other run goes on: every name find_all_raw_matches assigns is a
\* local of the call, and the parser is the run's own
SwitchTo(frame) == Load(frame)

ConcInit ==
    /\ \E registry \in ConcRegistries, a, b \in ConcTexts :
           /\ config_data = registry
           /\ Holds(FrameOf(a, registry))
           /\ conc = [phase |-> "alone", id |-> 1, texts |-> <<a, b>>, registry |-> registry,
                      alone |-> <<>>, parked |-> <<FrameOf(b, registry)>>, mixed |-> FALSE]
    /\ prev_result = None
    /\ runs = 0
    /\ selected_files = <<>>
    /\ last_ioc_data = None
    /\ last_query_data = None
    /\ report_result = None
    /\ queries_file = None
    /\ clean_in = <<>>
    /\ clean_type = ""
    /\ clean_out = <<>>
    /\ config_file = Stored(config_data)
    /\ cfg_call = NoCall
    /\ uri_call = NoUris

bystanders == <<config_data, clean_in, clean_type, clean_out, config_file, cfg_call,
                controller, prev_result, runs, uri_call>>

\* the rest of parse
ParseOnly ==
    /\ pc = "fill"
    /\ conc.phase # ""
    /\ raw_matches' = FillMissing(raw_matches, ioc_config, 1)
    /\ result' = Some([success |-> TRUE,
                        ioc_data |-> Some(FillMissing(raw_matches, ioc_config, 1))])
    /\ pc' = "returned"
    /\ UNCHANGED <<inputs, parser, controller, buf, found_hash_strings, prev_result, runs>>

\* a run alone has returned: the next one alone, then the two together
AloneDone ==
    /\ conc.phase = "alone"
    /\ pc = "returned"
    /\ IF conc.id = 1
       THEN /\ Load(conc.parked[1])
            /\ conc' = [conc EXCEPT !.id = 2, !.alone = <<result>>, !.parked = <<>>]
       ELSE /\ Load(FrameOf(conc.texts[1], config_data))
            /\ conc' = [conc EXCEPT !.phase = "both", !.id = 1, !.alone = @ \o <<result>>,
                                    !.parked = <<FrameOf(conc.texts[2], config_data)>>]
    /\ UNCHANGED bystanders

InStage(frame) == frame.pc \notin {"SHA256", "returned"}

\* the scheduler takes the run that is executing off and puts the other on
Switch ==
    /\ conc.phase = "both"
    /\ SwitchTo(conc.parked[1])
    /\ conc' = [conc EXCEPT !.id = 3 - @, !.parked = <<ActiveFrame>>,
                            !.mixed = @ \/ (InStage(ActiveFrame) /\ InStage(conc.parked[1]))]
    /\ UNCHANGED bystanders

ConcNext ==
    \/ HashStage
    \/ StitchStage
    \/ UriStage
    \/ IpStage
    \/ EmailStage
    \/ FileStage
    \/ DnsStage
    \/ ParseOnly
    \/ AloneDone
    \/ Switch

ConcSpec == ConcInit /\ [][ConcNext]_vars

(***************************************************************************)
(* One text parsed under a registry, then again after move_ioc changed the *)
(* order of the registry.                                                  *)
(***************************************************************************)
\* at most MaxMoves calls of move_ioc between the two runs
MaxMoves == 1

RegistryTok == <<"H", "K", "L", "M", "\\", "a">>

PermTexts ==
    {<<>>, Md5Tok, <<LQuote>> \o IpTok, RegistryTok, RegistryTok \o <<" ">> \o Sha256Tok,
                    Sha1Tok \o <<" ">> \o IpTok \o <<" ">> \o UriTok,
                    EmailTok \o <<"\n", LQuote>> \o FileTailTok \o <<" ">> \o DnsTok}

PermRegistries ==
    {Registry({}, ""), ReverseSeq(Registry({}, "")), Registry({"SHA256", "Email"}, "")}

PermInit ==
    /\ \E registry \in PermRegistries, a \in PermTexts :
           /\ config_data = registry
           /\ Holds(FrameOf(a, registry))
           /\ conc = [phase |-> "perm", id |-> 1, texts |-> <<a>>, registry |-> registry,
                      alone |-> <<>>, parked |-> <<>>, mixed |-> FALSE]
    /\ prev_result = None
    /\ runs = 0
    /\ selected_files = <<>>
    /\ last_ioc_data = None
    /\ last_query_data = None
    /\ report_result = None
    /\ queries_file = None
    /\ clean_in = <<>>
    /\ clean_type = ""
    /\ clean_out = <<>>
    /\ config_file = Stored(config_data)
    /\ cfg_call = NoCall
    /\ uri_call = NoUris

\* SettingsTab._move_ioc of the block at index, between the two runs
MoveBetween ==
    /\ conc.phase = "perm"
    /\ conc.id = 1
    /\ pc = "returned"
    /\ cfg_call.n < MaxMoves
    /\ \E index \in 0..(Len(config_data) - 1), direction \in {0 - 1, 1} :
           move_ioc(index, direction)
    /\ UNCHANGED <<text, pc, parser, buf, found_hash_strings, raw_matches, result, conc,
                   clean_in, clean_type, clean_out, config_file, controller, prev_result,
                   runs, uri_call>>

\* the second run, on the same text and the registry as it is now
RunAgain ==
    /\ conc.phase = "perm"
    /\ conc.id = 1
    /\ pc = "returned"
    /\ Load(FrameOf(conc.texts[1], config_data))
    /\ conc' = [conc EXCEPT !.id = 2, !.alone = <<result>>]
    /\ UNCHANGED bystanders

PermNext ==
    \/ HashStage
    \/ StitchStage
    \/ UriStage
    \/ IpStage
    \/ EmailStage
    \/ FileStage
    \/ DnsStage
    \/ ParseOnly
    \/ MoveBetween
    \/ RunAgain

PermSpec == PermInit /\ [][PermNext]_vars

(***************************************************************************)
(* The File stage with a File category that carries file_blacklist and     *)
(* filename_exclusions: one call of parse for each text and registry.      *)
(***************************************************************************)
\* what stands before the opening bracket
FilePrefixes ==
    {<<>>, <<"d", "o", "c", " ">>, <<"D", "o", "c">>, <<"D", "o", "c", "\n">>, <<"x", " ">>}

\* what stands between the brackets
FileInners ==
    {<<"r", ".", "p", "d", "f">>,
     <<" ", "r", ".", "p", "d", "f", " ">>,
     <<"r", " ", " ", "r", ".", "p", "d", "f">>,
     <<"a", ".", "b", ".", "p", "d", "f">>,
     <<"a", "[", "1", "]", ".", "p", "d", "f">>,
     <<"r", ".", "p", "1">>,
     <<"r", ".">>,
     <<".", "p", "d", "f">>,
     <<"A", "n", "y">>}

FileTexts ==
    {prefix \o <<LQuote>> \o inner \o <<RQuote>> : prefix \in FilePrefixes, inner \in FileInners}

FileBlacklists == {<<>>, <<<<"d", "o", "c">>>>, <<<<"D", "o", "c">>>>, <<<<"d", "o", "c", " ">>>>}
FileExclusions == {<<>>, <<<<"r", ".", "p", "d", "f">>>>}

\* DEFAULT_CONFIG whose File category has the two optional lists
WithFileLists(blacklist, exclusions) ==
    [k \in 1..Len(DEFAULT_CONFIG) |->
        IF DEFAULT_CONFIG[k].name = "File"
        THEN [f \in DOMAIN DEFAULT_CONFIG[k] \cup {"file_blacklist", "filename_exclusions"} |->
                 IF f = "file_blacklist" THEN blacklist
                 ELSE IF f = "filename_exclusions" THEN exclusions
                 ELSE DEFAULT_CONFIG[k][f]]
        ELSE DEFAULT_CONFIG[k]]

FileRegistries ==
    {WithFileLists(b, e) : b \in FileBlacklists, e \in FileExclusions}

FileInit ==
    /\ \E registry \in FileRegistries, a \in FileTexts :
           /\ config_data = registry
           /\ Holds(FrameOf(a, registry))
           /\ conc = [phase |-> "file", id |-> 1, texts |-> <<a>>, registry |-> registry,
                      alone |-> <<>>, parked |-> <<>>, mixed |-> FALSE]
    /\ prev_result = None
    /\ runs = 0
    /\ selected_files = <<>>
    /\ last_ioc_data = None
    /\ last_query_data = None
    /\ report_result = None
    /\ queries_file = None
    /\ clean_in = <<>>
    /\ clean_type = ""
    /\ clean_out = <<>>
    /\ config_file = Stored(config_data)
    /\ cfg_call = NoCall
    /\ uri_call = NoUris

FileNext ==
    \/ HashStage
    \/ StitchStage
    \/ UriStage
    \/ IpStage
    \/ EmailStage
    \/ FileStage
    \/ DnsStage
    \/ ParseOnly

FileSpec == FileInit /\ [][FileNext]_vars

(***************************************************************************)
(* _smart_clean_uri on its own.                                            *)
(***************************************************************************)
RECURSIVE Split(_, _)
\* s.split(c)
Split(s, c) ==
    IF FindFrom(s, <<c>>, 1) = 0 THEN <<s>>
    ELSE <<SubSeq(s, 1, FindFrom(s, <<c>>, 1) - 1)>>
             \o Split(SubSeq(s, FindFrom(s, <<c>>, 1) + 1, Len(s)), c)

RECURSIVE StripChar(_, _)
\* s.strip(c)
StripChar(s, c) ==
    IF s # <<>> /\ Head(s) = c THEN StripChar(Tail(s), c)
    ELSE IF s # <<>> /\ s[Len(s)] = c THEN StripChar(SubSeq(s, 1, Len(s) - 1), c)
    ELSE s

scheme_chars == AlnumAZ \cup {"+", "-", "."}

\* the url after its scheme, if the text before its first ":" is one
AfterScheme(url) ==
    IF /\ FindFrom(url, <<":">>, 1) > 1
       /\ url[1] \in AlphaAZ
       /\ \A k \in 1..(FindFrom(url, <<":">>, 1) - 1) : url[k] \in scheme_chars
    THEN SubSeq(url, FindFrom(url, <<":">>, 1) + 1, Len(url))
    ELSE url

\* netloc and path of urllib.parse.urlparse(url), for a url without "?",
\* "#", ";" and brackets
urlparse(url) ==
    LET tail == AfterScheme(url)
        end == FindFrom(tail, <<"/">>, 3)
    IN  IF StartsWithAt(tail, 1, <<"/", "/">>)
        THEN [netloc |-> SubSeq(tail, 3, IF end = 0 THEN Len(tail) ELSE end - 1),
              path |-> IF end = 0 THEN <<>> ELSE SubSeq(tail, end, Len(tail))]
        ELSE [netloc |-> <<>>, path |-> tail]

Http == <<"h", "t", "t", "p">>

\* urlparse(uri if uri.startswith('http') else 'http://' + uri)
Parsed(uri) ==
    urlparse(IF StartsWithAt(uri, 1, Http) THEN uri ELSE Http \o <<":", "/", "/">> \o uri)

\* parsed.netloc or parsed.path.split('/')[0]
DomainOf(cleaned) ==
    IF Parsed(cleaned).netloc # <<>> THEN Parsed(cleaned).netloc
    ELSE Split(Parsed(cleaned).path, "/")[1]

RECURSIVE domain_groups(_, _, _)
\* the first loop of _smart_clean_uri, from the k-th pair of uris on
domain_groups(uris, k, groups) ==
    IF k > Len(uris) THEN groups
    ELSE domain_groups(uris, k + 1,
             DictSet(groups, DomainOf(uris[k][2]),
                     (IF DictHas(groups, DomainOf(uris[k][2]))
                      THEN DictGet(groups, DomainOf(uris[k][2])) ELSE <<>>)
                         \o <<uris[k][2]>>))

RECURSIVE PrefixLoop(_, _, _, _, _, _)
\* `for i, part in enumerate(path_parts)` from the i-th part on (1-based),
\* with cleaned as it is then
PrefixLoop(domain, path_parts, i, cleaned, uri, uri_list) ==
    IF i > Len(path_parts) THEN cleaned
    ELSE IF path_parts[i] = <<>>
    THEN PrefixLoop(domain, path_parts, i + 1, cleaned, uri, uri_list)
    ELSE IF \E k \in 1..Len(uri_list) :
                /\ uri_list[k] # uri
                /\ StartsWithAt(uri_list[k], 1,
                                domain \o <<"/">> \o Join("/", SubSeq(path_parts, 1, i)))
    THEN PrefixLoop(domain, path_parts, i + 1,
                    domain \o <<"/">> \o Join("/", SubSeq(path_parts, 1, i)), uri, uri_list)
    ELSE domain \o <<"/">> \o Join("/", SubSeq(path_parts, 1, i))

RECURSIVE GroupLoop(_, _, _, _)
\* `for uri in uri_list` of a group of several, from the k-th uri on
GroupLoop(domain, uri_list, k, cleaned_map) ==
    IF k > Len(uri_list) THEN cleaned_map
    ELSE GroupLoop(domain, uri_list, k + 1,
             DictSet(cleaned_map, uri_list[k],
                     PrefixLoop(domain, Split(StripChar(Parsed(uri_list[k]).path, "/"), "/"),
                                1, domain, uri_list[k], uri_list)))

RECURSIVE GroupsLoop(_, _, _)
\* `for domain, uri_list in domain_groups.items()` from the k-th group on
GroupsLoop(groups, k, cleaned_map) ==
    IF k > Len(groups) THEN cleaned_map
    ELSE GroupsLoop(groups, k + 1,
             IF Len(groups[k].v) = 1 THEN DictSet(cleaned_map, groups[k].v[1], groups[k].k)
             ELSE GroupLoop(groups[k].k, groups[k].v, 1, cleaned_map))

_smart_clean_uri(uris) == GroupsLoop(domain_groups(uris, 1, <<>>), 1, <<>>)

\* the list uris has at most MaxUris pairs, their cleaned values of UriPool
MaxUris == 3

HostE == <<"e", ".", "g">>
HostHttp == <<"h", "t", "t", "p", ".", "g">>

UriPool ==
    <<Http \o <<":", "/", "/">> \o HostE,
      Http \o <<":", "/", "/">> \o HostE \o <<"/", "a">>,
      Http \o <<":", "/", "/">> \o HostE \o <<"/", "a", "/", "b">>,
      Http \o <<":", "/", "/">> \o HostE \o <<"/", "a", "/", "c">>,
      Http \o <<":", "/", "/">> \o HostE \o <<"/", "c", "/">>,
      HostE \o <<"/", "a", "/", "b">>,
      HostE \o <<"/", "a", "/", "c">>,
      HostHttp \o <<"/", "a">>>>

\* the pairs (original, cleaned): _smart_clean_uri reads cleaned only
UriLists ==
    {[k \in DOMAIN f |-> <<<<>>, UriPool[f[k]]>>] :
        f \in UNION {[1..m -> 1..Len(UriPool)] : m \in 0..MaxUris}}

UriInit ==
    /\ uri_call \in {[uris |-> uris, returned |-> <<>>, done |-> FALSE] : uris \in UriLists}
    /\ pc = "uris"
    /\ config_data = <<>>
    /\ config_file = Json("missing", <<>>)
    /\ cfg_call = NoCall
    /\ conc = NoConc
    /\ text = <<>>
    /\ ioc_config = <<>>
    /\ file_blacklist = <<>>
    /\ filename_exclusions = <<>>
    /\ buf = NewBuffer(<<>>)
    /\ found_hash_strings = {}
    /\ raw_matches = <<>>
    /\ result = None
    /\ prev_result = None
    /\ runs = 0
    /\ selected_files = <<>>
    /\ last_ioc_data = None
    /\ last_query_data = None
    /\ report_result = None
    /\ queries_file = None
    /\ clean_in = <<>>
    /\ clean_type = ""
    /\ clean_out = <<>>

SmartCleanUri ==
    /\ pc = "uris"
    /\ pc' = "uris_done"
    /\ uri_call' = [uri_call EXCEPT !.returned = _smart_clean_uri(uri_call.uris),
                                     !.done = TRUE]
    /\ UNCHANGED <<config_data, config_file, cfg_call, conc, text, parser, buf,
                   found_hash_strings, raw_matches, result, prev_result, runs, controller,
                   clean_in, clean_type, clean_out>>

UriNext == SmartCleanUri

UriSpec == UriInit /\ [][UriNext]_vars

(***************************************************************************)
(* The settings tab: its blocks are built from the registry, the user      *)
(* edits them, moves a block or saves.                                     *)
(***************************************************************************)
\* at most MaxSettingsOps moves and saves
MaxSettingsOps == 2

SettingsRegistries ==
    {DEFAULT_CONFIG,
     WithFileLists(<<<<"d", "o", "c">>>>, <<<<"r", ".", "p", "d", "f">>>>)}

SettingsInit ==
    /\ config_data \in SettingsRegistries
    /\ config_file = Stored(config_data)
    /\ cfg_call = NoCall
    /\ conc = NoConc
    /\ uri_call = NoUris
    /\ pc = "settings"
    /\ text = <<>>
    /\ ioc_config = <<>>
    /\ file_blacklist = <<>>
    /\ filename_exclusions = <<>>
    /\ buf = NewBuffer(<<>>)
    /\ found_hash_strings = {}
    /\ raw_matches = <<>>
    /\ result = None
    /\ prev_result = None
    /\ runs = 0
    /\ selected_files = <<>>
    /\ last_ioc_data = None
    /\ last_query_data = None
    /\ report_result = None
    /\ queries_file = None
    /\ clean_in = <<>>
    /\ clean_type = ""
    /\ clean_out = <<>>

\* self.ioc_widgets after _load_config, the user having set the switch of
\* block k to enabled and its report type to report_type
ioc_widgets(k, enabled, report_type) ==
    [idx \in 1..Len(config_data) |->
        [index |-> idx,
         enabled_var |-> IF idx = k THEN enabled ELSE config_data[idx].enabled,
         report_type |-> IF idx = k THEN report_type ELSE config_data[idx].report_type,
         nta_status |-> config_data[idx].nta_status,
         siem_tools_status |-> config_data[idx].siem_tools_status,
         siem_status |-> config_data[idx].siem_status]]

\* updated_config of SettingsTab._save_config
updated_config(widgets) ==
    [j \in 1..Len(widgets) |->
        LET widget_set == widgets[j]
            original == config_data[widget_set.index]
        IN  [enabled |-> widget_set.enabled_var,
             name |-> original.name,
             regex |-> original.regex,
             report_type |-> widget_set.report_type,
             nta_status |-> widget_set.nta_status,
             siem_tools_status |-> widget_set.siem_tools_status,
             siem_status |-> widget_set.siem_status,
             mp10_templates |-> original.mp10_templates,
             nad_templates |-> original.nad_templates]]

\* SettingsTab._save_config: AppController.save_config(updated_config)
SettingsSave ==
    /\ pc = "settings"
    /\ cfg_call.n < MaxSettingsOps
    /\ \E k \in 1..Len(config_data), enabled \in BOOLEAN, edited \in BOOLEAN,
          written \in BOOLEAN :
           LET report_type == IF edited THEN "edited" ELSE config_data[k].report_type
               updated == updated_config(ioc_widgets(k, enabled, report_type))
           IN  /\ config_data' = updated
               /\ config_file' = save_config(updated, written)
               /\ cfg_call' = Call("_save_config", <<k, enabled, report_type>>,
                                   IF written THEN "True" ELSE "False",
                                   IF written THEN "saved" ELSE "failed")
    /\ UNCHANGED <<pc, rest>>

\* SettingsTab._move_ioc of the block at index
SettingsMove ==
    /\ pc = "settings"
    /\ cfg_call.n < MaxSettingsOps
    /\ \E index \in 0..(Len(config_data) - 1), direction \in {0 - 1, 1} :
           move_ioc(index, direction)
    /\ UNCHANGED <<pc, config_file, rest>>

SettingsNext == SettingsSave \/ SettingsMove

SettingsSpec == SettingsInit /\ [][SettingsNext]_vars

(***************************************************************************)
(* A session of the main tab: the user may replace the selected document   *)
(* between two extractions.                                                *)
(***************************************************************************)
SessionTexts ==
    {<<>>, IpTok, Md5Tok, EmailTok, UriTok \o <<" ">> \o IpObfTok,
     IpObfTok \o IpTok \o <<" ">> \o IpTok}

SessionRegistries == {Registry({}, ""), Registry({"IP"}, "")}

SessionInit ==
    /\ config_data \in SessionRegistries
    /\ text \in SessionTexts
    /\ pc = "idle"
    /\ ioc_config = <<>>
    /\ file_blacklist = <<>>
    /\ filename_exclusions = <<>>
    /\ buf = NewBuffer(<<>>)
    /\ found_hash_strings = {}
    /\ raw_matches = <<>>
    /\ result = None
    /\ prev_result = None
    /\ runs = 0
    /\ selected_files = <<>>
    /\ last_ioc_data = None
    /\ last_query_data = None
    /\ report_result = None
    /\ queries_file = None
    /\ clean_in = <<>>
    /\ clean_type = ""
    /\ clean_out = <<>>
    /\ config_file = Stored(config_data)
    /\ cfg_call = NoCall
    /\ conc = NoConc
    /\ uri_call = NoUris

\* clear_files and add_files of another document, between two calls
AddFiles ==
    /\ pc \in {"returned", "reported"}
    /\ \E a \in SessionTexts : a # text /\ text' = a
    /\ UNCHANGED <<config_data, clean_in, clean_type, clean_out, config_file, cfg_call, conc,
                   uri_call, pc, parser, buf, found_hash_strings, raw_matches, result,
                   prev_result, runs, controller>>

SessionNext ==
    \/ ProcessFiles
    \/ HashStage
    \/ StitchStage
    \/ UriStage
    \/ IpStage
    \/ EmailStage
    \/ FileStage
    \/ DnsStage
    \/ ParseReturn
    \/ GenerateReports
    \/ AddFiles

SessionSpec == SessionInit /\ [][SessionNext]_vars

Next ==
    \/ ProcessFiles
    \/ HashStage
    \/ StitchStage
    \/ UriStage
    \/ IpStage
    \/ EmailStage
    \/ FileStage
    \/ DnsStage
    \/ ParseReturn
    \/ GenerateReports

Spec == Init /\ [][Next]_vars

(***************************************************************************)
(* Properties.                                                              *)
(***************************************************************************)
InCall == pc \in ToSet(Stages)
\* every selected file is a document that can be read
Readable == \A k \in 1..Len(selected_files) : selected_files[k] # "bad"
Returned == pc = "returned" /\ result # None /\ result[1].success
ReturnedData == result[1].ioc_data[1]
EnabledNames == [k \in 1..Len(get_enabled_iocs(config_data)) |-> get_enabled_iocs(config_data)[k].name]

\* C1: the spans consumed by the stages of one call are pairwise disjoint:
\* no blanking for an accepted match covers a position that was consumed
\* for an accepted match before, so no stage matches text that an earlier
\* stage blanked.
C1_SpansDisjoint == InCall => ~buf.ovl

\* C2: within one category of a returned result the normalized values of
\* the pairs are pairwise distinct.
C2_NormalizedDistinct ==
    Returned =>
        \A j \in 1..Len(ReturnedData) :
            \A a, b \in 1..Len(ReturnedData[j].v) :
                a # b => ReturnedData[j].v[a][2] # ReturnedData[j].v[b][2]

\* the originals stored under name so far
Reported(name) ==
    IF DictHas(raw_matches, name)
    THEN {DictGet(raw_matches, name)[k][1] : k \in 1..Len(DictGet(raw_matches, name))}
    ELSE {}

ReportedLonger(name) ==
    IF name = "MD5" THEN Reported("SHA256") \cup Reported("SHA1")
    ELSE IF name = "SHA1" THEN Reported("SHA256")
    ELSE {}

HashLen(name) == IF name = "MD5" THEN Md5Len ELSE IF name = "SHA1" THEN Sha1Len ELSE Sha256Len

\* the runs of n hexadecimal characters of the input text
HexWindows(n) ==
    {SubSeq(text, p, p + n - 1) : p \in {q \in 1..(Len(text) - n + 1) :
                                           \A k \in q..(q + n - 1) : text[k] \in HexChar}}

OnlyEmbedded(name) ==
    /\ HexWindows(HashLen(name)) # {}
    /\ \A w \in HexWindows(HashLen(name)) : \E h \in ReportedLonger(name) : Contains(h, w)

\* C3: hashes are taken longest first: at every point of a call and in its
\* result, no value stored under SHA1 or MD5 is a substring of a value
\* stored under a longer hash category in the same call, and when every
\* run of hexadecimal characters of the length of a category lies inside a
\* value stored under a longer category, the result of the category is
\* empty.
C3_LongestFirst ==
    \A name \in {"SHA1", "MD5"} :
        /\ \A m \in Reported(name) : \A h \in ReportedLonger(name) : ~Contains(h, m)
        /\ (DictHas(raw_matches, name) /\ OnlyEmbedded(name))
               => DictGet(raw_matches, name) = <<>>

\* a call in which the MD5 rule finds a candidate in the buffer, SHA1 has a
\* value stored, and the candidate lies inside it
C3_Witness ==
    /\ pc = "stitch"
    /\ FirstEnabled(ioc_config, "MD5") # <<>>
    /\ Reported("SHA1") # {}
    /\ OnlyEmbedded("MD5")
    /\ FindIter(HashRegex(Md5Len), text) # <<>>
    /\ DictGet(raw_matches, "MD5") = <<>>

\* C4: clean_ioc is idempotent: cleaning a cleaned value changes nothing,
\* for every input string and category.
C4_Idempotent == Len(clean_out) = 2 => clean_out[2] = clean_out[1]

\* C5: the working buffer has the length of the input text throughout a
\* call, the stitching of split URIs included.
C5_SameLength == InCall => Len(buf.wt) = Len(text)

\* C6: a rule that does not compile for one enabled category does not stop
\* the call: it returns a result in which that category is empty.
C6_BadRuleIsolated ==
    (pc = "returned" /\ result # None /\ Readable) =>
        \A k \in 1..Len(ioc_config) :
            ioc_config[k].regex.t = BadRegex.t =>
                /\ result[1].success
                /\ DictHas(ReturnedData, ioc_config[k].name)
                /\ DictGet(ReturnedData, ioc_config[k].name) = <<>>

\* C7: a category that is disabled in or absent from the registry is
\* skipped: its stage blanks nothing and its result is empty.
C7_DisabledSkipped ==
    InCall =>
        \A name \in {"SHA256", "SHA1", "MD5", "URI", "IP", "Email", "File", "DNS"} :
            FirstEnabled(ioc_config, name) = <<>> =>
                /\ \A k \in 1..Len(buf.own) : buf.own[k] # name
                /\ DictHas(raw_matches, name) => DictGet(raw_matches, name) = <<>>

\* C8: the returned mapping has an entry for every enabled category, and
\* its entries are in registry order.
C8_RegistryOrder ==
    Returned =>
        /\ \A k \in 1..Len(EnabledNames) : DictHas(ReturnedData, EnabledNames[k])
        /\ SelectSeq(DictKeys(ReturnedData), LAMBDA key : key \in ToSet(EnabledNames))
               = EnabledNames

\* C9: extraction is deterministic: a second call on the same text with
\* the same registry returns the result of the first, the order of the
\* pairs of each category included.
C9_Deterministic ==
    (pc = "returned" /\ result # None /\ prev_result # None
        /\ result[1].success /\ prev_result[1].success) => result = prev_result

\* q is template with every placeholder replaced by ioc
RECURSIVE IsInstance(_, _, _)
IsInstance(q, template, ioc) ==
    IF template = <<>> THEN q = <<>>
    ELSE IF Head(template) = Placeholder
    THEN /\ Len(q) >= Len(ioc)
         /\ SubSeq(q, 1, Len(ioc)) = ioc
         /\ IsInstance(SubSeq(q, Len(ioc) + 1, Len(q)), Tail(template), ioc)
    ELSE /\ q # <<>>
         /\ Head(q) = Head(template)
         /\ IsInstance(Tail(q), Tail(template), ioc)

InstanceLen(template, ioc) ==
    Len(template) + Cardinality({k \in 1..Len(template) : template[k] = Placeholder})
                        * (Len(ioc) - 1)

\* q is the instances of template for iocs, in order, with sep between
\* neighbours
RECURSIVE IsMerged(_, _, _, _)
IsMerged(q, template, iocs, sep) ==
    IF Len(iocs) = 1 THEN IsInstance(q, template, iocs[1])
    ELSE /\ Len(q) > InstanceLen(template, iocs[1]) + 1
         /\ IsInstance(SubSeq(q, 1, InstanceLen(template, iocs[1])), template, iocs[1])
         /\ q[InstanceLen(template, iocs[1]) + 1] = sep
         /\ IsMerged(SubSeq(q, InstanceLen(template, iocs[1]) + 2, Len(q)),
                     template, Tail(iocs), sep)

NormalizedOf(ioc_data, name) ==
    [k \in 1..Len(DictGet(ioc_data, name)) |-> DictGet(ioc_data, name)[k][2]]

\* the queries of last_query_data for the category name
QueriesOf(name) ==
    Flatten([g \in 1..Len(last_query_data[1]) |->
                SelectSeq(last_query_data[1][g].queries, LAMBDA item : item.ioc_name = name)])

Compiled(e, iocs) ==
    LET qs == QueriesOf(e.name)
        m == Len(e.mp10_templates)
    IN  /\ Len(qs) = m + Len(e.nad_templates)
        /\ \A k \in 1..Len(qs) :
               IF k <= m
               THEN /\ qs[k].system = "MP10"
                    /\ IsMerged(qs[k].query, e.mp10_templates[k], iocs, " OR ")
               ELSE /\ qs[k].system = "NAD"
                    /\ IsMerged(qs[k].query, e.nad_templates[k - m], iocs, " || ")

\* lines[from + 1 ..] starts with the lines of one system: its heading, one
\* merged expression for each template, and an empty line
SystemLines(lines, from, heading, templates, iocs, sep) ==
    templates # <<>> =>
        /\ Len(lines) >= from + Len(templates) + 2
        /\ lines[from + 1] = <<heading>>
        /\ \A k \in 1..Len(templates) :
               IsMerged(lines[from + 1 + k], templates[k], iocs, sep)
        /\ lines[from + Len(templates) + 2] = <<>>

SystemLen(templates) == IF templates = <<>> THEN 0 ELSE Len(templates) + 2

\* the block of the queries file whose heading is lines[p]
CompiledAt(lines, p, e, iocs) ==
    /\ SystemLines(lines, p + 1, ForMP10, e.mp10_templates, iocs, " OR ")
    /\ SystemLines(lines, p + 1 + SystemLen(e.mp10_templates), ForNAD, e.nad_templates,
                   iocs, " || ")
    /\ \A q \in (p + 2)..(p + 1 + SystemLen(e.mp10_templates) + SystemLen(e.nad_templates)) :
           q <= Len(lines) => lines[q] # <<Rule80>>
    /\ LET end == p + 1 + SystemLen(e.mp10_templates) + SystemLen(e.nad_templates)
       IN  Len(lines) = end \/ (Len(lines) > end /\ lines[end + 1] = <<"\n", Rule80>>)

CompiledInFile(e, iocs) ==
    /\ Cardinality({p \in 1..Len(queries_file[1]) :
                       queries_file[1][p] = CategoryHeading(e.name)}) = 1
    /\ \A p \in 1..Len(queries_file[1]) :
           queries_file[1][p] = CategoryHeading(e.name)
               => CompiledAt(queries_file[1], p, e, iocs)

QueriesWritten ==
    /\ pc = "reported"
    /\ report_result # None
    /\ report_result[1].queries_path
    /\ last_query_data # None
    /\ queries_file # None

\* C10: for every enabled category with n >= 1 values in the result and
\* every query template of the category, the compiled query, in the data
\* for the queries tab and in the queries file, is the n strings got by
\* putting each normalized value for the placeholder, in result order,
\* joined by " OR " for MP10 and by " || " for NAD, one merged expression
\* for each template of each system.
C10_MergedQueries ==
    QueriesWritten =>
        \A k \in 1..Len(config_data) :
            (/\ config_data[k].enabled
             /\ DictHas(ReturnedData, config_data[k].name)
             /\ DictGet(ReturnedData, config_data[k].name) # <<>>)
                => /\ Compiled(config_data[k],
                               NormalizedOf(ReturnedData, config_data[k].name))
                   /\ CompiledInFile(config_data[k],
                                     NormalizedOf(ReturnedData, config_data[k].name))

\* queries were compiled for a category with two values and templates of
\* both systems
C10_Witness ==
    /\ QueriesWritten
    /\ \E k \in 1..Len(config_data) :
           /\ config_data[k].enabled
           /\ config_data[k].mp10_templates # <<>>
           /\ config_data[k].nad_templates # <<>>
           /\ DictHas(ReturnedData, config_data[k].name)
           /\ Len(DictGet(ReturnedData, config_data[k].name)) >= 2
           /\ QueriesOf(config_data[k].name) # <<>>

\* the categories that have a query group: enabled, with a value in the
\* result and with a template
HasGroup(e) ==
    /\ e.enabled
    /\ DictHas(ReturnedData, e.name)
    /\ DictGet(ReturnedData, e.name) # <<>>
    /\ e.mp10_templates \o e.nad_templates # <<>>

\* the template that the k-th query of a group of the category e is for
TemplateOf(e, k) ==
    IF k <= Len(e.mp10_templates) THEN e.mp10_templates[k]
    ELSE e.nad_templates[k - Len(e.mp10_templates)]

\* C11: the query data lists the categories in registry order and, within
\* a category, the templates in the order of their declaration (those of
\* MP10, then those of NAD); a category that is disabled or has no value
\* in the result has no query group.
C11_QueryOrder ==
    QueriesWritten =>
        LET groups == last_query_data[1]
            cats == SelectSeq(config_data, HasGroup)
        IN  /\ Len(groups) = Len(cats)
            /\ \A g \in 1..Len(groups) :
                   /\ groups[g].group_name = <<cats[g].name, " (", cats[g].report_type, ")">>
                   /\ Len(groups[g].queries)
                          = Len(cats[g].mp10_templates) + Len(cats[g].nad_templates)
                   /\ \A k \in 1..Len(groups[g].queries) :
                          /\ groups[g].queries[k].ioc_name = cats[g].name
                          /\ groups[g].queries[k].system
                                 = (IF k <= Len(cats[g].mp10_templates) THEN "MP10" ELSE "NAD")
                          /\ IsInstance(SubSeq(groups[g].queries[k].query, 1,
                                               InstanceLen(TemplateOf(cats[g], k),
                                                           DictGet(ReturnedData, cats[g].name)[1][2])),
                                        TemplateOf(cats[g], k),
                                        DictGet(ReturnedData, cats[g].name)[1][2])

\* query data with two groups, while an enabled category with templates
\* has no value in the result
C11_Witness ==
    /\ QueriesWritten
    /\ Len(last_query_data[1]) >= 2
    /\ \E k \in 1..Len(config_data) :
           /\ config_data[k].enabled
           /\ config_data[k].mp10_templates # <<>>
           /\ DictHas(ReturnedData, config_data[k].name)
           /\ DictGet(ReturnedData, config_data[k].name) = <<>>

\* the registry with the entries at the 0-based positions i and j exchanged
Exchanged(config, i, j) ==
    [k \in 1..Len(config) |->
        IF k = i + 1 THEN config[j + 1] ELSE IF k = j + 1 THEN config[i + 1] ELSE config[k]]

WellFormed(file) ==
    /\ file.t = "list"
    /\ \A k \in 1..Len(file.v) :
           file.v[k].t = "dict" /\ required_fields \subseteq DOMAIN file.v[k].v

\* C13: after ConfigManager is constructed the registry is the stored list,
\* which has every required field in every entry, or DEFAULT_CONFIG; a
\* missing file, unparsable content, a non-list value, a non-record entry or
\* an entry missing a required field reset the registry to DEFAULT_CONFIG
\* with a save of that default, and the constructor returns.
C13_LoadOrDefault ==
    cfg_call.op = "__init__" =>
        /\ cfg_call.returned = "None"
        /\ IF WellFormed(cfg_call.file_before)
           THEN /\ config_data = [k \in 1..Len(cfg_call.file_before.v) |->
                                      cfg_call.file_before.v[k].v]
                /\ \A k \in 1..Len(config_data) :
                       required_fields \subseteq DOMAIN config_data[k]
                /\ config_file = cfg_call.file_before
           ELSE /\ config_data = DEFAULT_CONFIG
                /\ cfg_call.saved \in {"saved", "failed"}
                /\ cfg_call.saved = "saved" => config_file = Stored(DEFAULT_CONFIG)

C13_Witness ==
    /\ cfg_call.op = "__init__"
    /\ cfg_call.file_before.t = "list"
    /\ \E k \in 1..Len(cfg_call.file_before.v) :
           /\ cfg_call.file_before.v[k].t = "dict"
           /\ "regex" \notin DOMAIN cfg_call.file_before.v[k].v
    /\ config_data = DEFAULT_CONFIG
    /\ config_file = Stored(DEFAULT_CONFIG)

\* C14: the names of the categories of the registry are pairwise distinct
C14_NamesDistinct ==
    pc = "config" =>
        \A j, k \in 1..Len(config_data) :
            config_data[j].name = config_data[k].name => j = k

\* sub is a contiguous substring of s
IsSubstring(sub, s) ==
    \E i \in 0..(Len(s) - Len(sub)) : SubSeq(s, i + 1, i + Len(sub)) = sub

\* C15: the original of every pair of every category of a returned result
\* is a contiguous substring of the input text.
C15_OriginalLiteral ==
    Returned =>
        \A j \in 1..Len(ReturnedData) :
            \A a \in 1..Len(ReturnedData[j].v) :
                IsSubstring(ReturnedData[j].v[a][1], text)

\* C16: when one of several selected files cannot be read, process_files
\* still returns the IOCs of the files that were read.
C16_ReadableKept ==
    (pc = "returned" /\ result # None /\ Len(selected_files) > 1 /\ ~Readable
        /\ get_enabled_iocs(config_data) # <<>>
        /\ \A k \in 1..Len(ioc_config) : ioc_config[k].regex.t # BadRegex.t) =>
        /\ result[1].success
        /\ result[1].ioc_data # None

\* C17: generate_reports returns failure when the writing of the spreadsheet
\* or of the query file fails, and it never changes last_ioc_data.
C17_WriteFailureReported ==
    [][GenerateReports =>
          /\ last_ioc_data' = last_ioc_data
          /\ ("failed" \in {report_result'[1].xlsx, report_result'[1].queries}
                 => ~report_result'[1].success)]_vars

\* a result with the pairs of each category as a set
Unordered(res) ==
    IF res = None THEN <<>>
    ELSE IF res[1].ioc_data = None THEN <<res[1].success>>
    ELSE <<res[1].success,
           [k \in 1..Len(res[1].ioc_data[1]) |->
               <<res[1].ioc_data[1][k].k, ToSet(res[1].ioc_data[1][k].v)>>]>>

\* C18: two runs on two texts and one registry, their stages interleaved in
\* any way: each run returns what it returns alone (the pairs of every
\* category, whatever order a set of matches is visited in), and the
\* registry and the blacklist and exclusion lists of the parsers stay as
\* they were.
C18_RunsIndependent ==
    conc.phase = "both" =>
        /\ pc = "returned" => Unordered(result) = Unordered(conc.alone[conc.id])
        /\ conc.parked[1].pc = "returned" =>
               Unordered(conc.parked[1].result) = Unordered(conc.alone[3 - conc.id])
        /\ config_data = conc.registry
        /\ \A frame \in {ActiveFrame, conc.parked[1]} :
               /\ frame.ioc_config = get_enabled_iocs(conc.registry)
               /\ frame.file_blacklist = FrameOf(<<>>, conc.registry).file_blacklist
               /\ frame.filename_exclusions = FrameOf(<<>>, conc.registry).filename_exclusions

C18_Witness ==
    /\ conc.phase = "both"
    /\ conc.mixed
    /\ conc.texts[1] # conc.texts[2]
    /\ pc = "returned" /\ result[1].success
    /\ conc.parked[1].pc = "returned" /\ conc.parked[1].result[1].success
    /\ \E k \in 1..Len(ReturnedData) : ReturnedData[k].v # <<>>
    /\ \E k \in 1..Len(conc.parked[1].result[1].ioc_data[1]) :
           conc.parked[1].result[1].ioc_data[1][k].v # <<>>

\* the host groups of the call, and the path segments of a URI
UriGroups == domain_groups(uri_call.uris, 1, <<>>)
Segments(uri) == Split(StripChar(Parsed(uri).path, "/"), "/")
PathPrefix(domain, uri, k) == domain \o <<"/">> \o Join("/", SubSeq(Segments(uri), 1, k))
Display(uri) == DictGet(uri_call.returned, uri)

\* C19: in a host group of several URIs the display value of a URI is its
\* shortest prefix host/seg1/.../segk that sets it apart from its siblings,
\* so two URIs of one group that differ only after a shared first path
\* segment get different display values.
C19_SiblingsDistinct ==
    uri_call.done =>
        \A g \in 1..Len(UriGroups) :
            \A a, b \in 1..Len(UriGroups[g].v) :
                LET u == UriGroups[g].v[a]
                    v == UriGroups[g].v[b]
                IN  (/\ Parsed(u).path # Parsed(v).path
                     /\ Len(Segments(u)) > 1 /\ Len(Segments(v)) > 1
                     /\ Segments(u)[1] = Segments(v)[1]) => Display(u) # Display(v)

\* C20: the URI of a host group of one maps to the host alone; in a group of
\* several a URI that no path prefix sets apart from its siblings, one with
\* an empty path included, maps to the whole normalized URI.
C20_HostOrWhole ==
    uri_call.done =>
        \A g \in 1..Len(UriGroups) :
            IF Len(UriGroups[g].v) = 1
            THEN Display(UriGroups[g].v[1]) = UriGroups[g].k
            ELSE \A a \in 1..Len(UriGroups[g].v) :
                    LET u == UriGroups[g].v[a]
                    IN  (\A k \in 1..Len(Segments(u)) :
                            Segments(u)[k] # <<>> =>
                                \E b \in 1..Len(UriGroups[g].v) :
                                    /\ UriGroups[g].v[b] # u
                                    /\ StartsWithAt(UriGroups[g].v[b], 1,
                                                    PathPrefix(UriGroups[g].k, u, k)))
                        => Display(u) = u

\* the pairs of each category of a result, as a set
PairSets(res) ==
    IF res[1].ioc_data = None THEN {}
    ELSE {<<res[1].ioc_data[1][k].k, ToSet(res[1].ioc_data[1][k].v)>> :
             k \in 1..Len(res[1].ioc_data[1])}

\* C21: whatever the order of the registry a run goes through its stages
\* in the order SHA256, SHA1, MD5, stitching, URI, IP, Email, File, DNS,
\* each on the buffer the one before left, and a run on the same text
\* after the registry entries were permuted reports the same set of pairs
\* for every category.
C21_OrderFixed ==
    [][/\ (pc \in ToSet(Stages) /\ pc' # pc) =>
              (pc' = "returned" \/ (pc # "fill" /\ pc' = StageAfter(pc)))
       /\ (pc \notin ToSet(Stages) /\ pc' \in ToSet(Stages)) => pc' = Stages[1]
       /\ (conc'.phase = "perm" /\ conc'.id = 2 /\ pc' = "returned") =>
              /\ result'[1].success = conc'.alone[1][1].success
              /\ PairSets(result') = PairSets(conc'.alone[1])]_vars

C21_Witness ==
    /\ conc.phase = "perm"
    /\ conc.id = 2
    /\ pc = "returned"
    /\ config_data # conc.registry
    /\ get_enabled_iocs(config_data)[1].name # get_enabled_iocs(conc.registry)[1].name
    /\ Cardinality({k \in 1..Len(ReturnedData) : ReturnedData[k].v # <<>>}) >= 3

\* C22: an enabled category that is not one of the hard-coded stages, such
\* as Registry, is extracted with its own rule: its result is not empty
\* when its rule matches the buffer the stages left.
C22_OwnRuleApplied ==
    (conc.phase = "perm" /\ pc = "returned" /\ result[1].success
        /\ FirstEnabled(ioc_config, "Registry") # <<>>
        /\ FindIter(FirstEnabled(ioc_config, "Registry")[1].regex, buf.wt) # <<>>) =>
        DictGet(ReturnedData, "Registry") # <<>>

\* C23: the URI result of a run has no two pairs with the same original, and
\* its pairs are in ascending order of original.
C23_UriDistinctSorted ==
    (Returned /\ DictHas(ReturnedData, "URI")) =>
        LET uri_pairs == DictGet(ReturnedData, "URI")
        IN  /\ \A a, b \in 1..Len(uri_pairs) : a # b => uri_pairs[a][1] # uri_pairs[b][1]
            /\ \A a \in 1..(Len(uri_pairs) - 1) :
                   ~StrLess(uri_pairs[a + 1][1], uri_pairs[a][1])

\* the stages after the IP stage, and the end of the call
AfterIp == pc \in {"Email", "File", "DNS", "fill"} \/ Returned

\* C24: once the IP stage is over no string it accepted occurs in the
\* working buffer, in whatever order the matches were blanked, and no pair
\* reported by Email, File or DNS contains one, in its original or in its
\* normalized value.
C24_IpGone ==
    (AfterIp /\ DictHas(raw_matches, "IP")) =>
        \A a \in 1..Len(DictGet(raw_matches, "IP")) :
            /\ ~Contains(buf.wt, DictGet(raw_matches, "IP")[a][1])
            /\ \A name \in {"Email", "File", "DNS"} :
                   DictHas(raw_matches, name) =>
                       \A b \in 1..Len(DictGet(raw_matches, name)) :
                           /\ ~Contains(DictGet(raw_matches, name)[b][1],
                                         DictGet(raw_matches, "IP")[a][1])
                           /\ ~Contains(DictGet(raw_matches, name)[b][2],
                                         DictGet(raw_matches, "IP")[a][1])

\* the candidates of the File stage in the buffer wt: span, inner text and
\* the text of the lookback window before the opening bracket
Candidates(wt) ==
    LET spans == FindIter(file_pattern, wt)
    IN  {[filename |-> Slice(wt, sp[1] + 1, sp[2] - 1),
          window |-> Slice(wt, IF sp[1] > FileLookback THEN sp[1] - FileLookback ELSE 0, sp[1])] :
            sp \in ToSet(spans)}

\* C25: a File candidate whose lookback window ends with a configured
\* blacklist phrase (whatever the letter case of the phrase), or whose
\* trimmed inner text is a configured exclusion, is not in the File result
C25_BlacklistedDiscarded ==
    [][(pc = "File" /\ conc.phase = "file") =>
          \A c \in Candidates(buf.wt) :
              (\/ \E w \in ToSet(file_blacklist) : EndsWith(c.window, w)
               \/ Strip(c.filename) \in ToSet(filename_exclusions)) =>
                  \A k \in 1..Len(DictGet(raw_matches', "File")) :
                      DictGet(raw_matches', "File")[k][1] # c.filename]_vars


\* the number of c in s
CountOf(s, c) == Cardinality({k \in 1..Len(s) : s[k] = c})

\* C26: every pair of the File result has an inner text with exactly one
\* '.', a non-empty base before it and a non-empty alphabetic extension
\* after it, and its normalized value is the inner text trimmed with its
\* whitespace runs collapsed
C26_OneExtensionTrimmed ==
    (conc.phase = "file" /\ Returned) =>
        \A k \in 1..Len(DictGet(ReturnedData, "File")) :
            LET original == DictGet(ReturnedData, "File")[k][1]
                normalized == DictGet(ReturnedData, "File")[k][2]
                parts == RSplitDot(original)
            IN  /\ CountOf(original, ".") = 1
                /\ Strip(parts[1]) # <<>>
                /\ Strip(parts[2]) # <<>>
                /\ \A j \in 1..Len(Strip(parts[2])) : Strip(parts[2])[j] \in AlphaAZ
                /\ normalized = CollapseWhitespace(Strip(original))

\* no call of the controller is under way
BetweenCalls == pc \in {"idle", "returned", "reported"}

\* C27: between the calls of the controller, last_query_data, when it is
\* not None, is what generate_query_data compiles from the current
\* last_ioc_data with the current enabled registry
C27_QueryDataCurrent ==
    (BetweenCalls /\ last_query_data # None) =>
        /\ last_ioc_data # None
        /\ last_query_data[1] = generate_query_data(get_enabled_iocs(config_data),
                                                    last_ioc_data[1])

\* C28: a save from the settings tab keeps, for every category, the name,
\* the rule, both template lists and the lists file_blacklist and
\* filename_exclusions that the parser reads
C28_SaveKeepsRest ==
    cfg_call.op = "_save_config" =>
        /\ Len(config_data) = Len(cfg_call.before)
        /\ \A k \in 1..Len(config_data) :
               /\ config_data[k].name = cfg_call.before[k].name
               /\ config_data[k].regex = cfg_call.before[k].regex
               /\ config_data[k].mp10_templates = cfg_call.before[k].mp10_templates
               /\ config_data[k].nad_templates = cfg_call.before[k].nad_templates
               /\ GetOr(config_data[k], "file_blacklist")
                      = GetOr(cfg_call.before[k], "file_blacklist")
               /\ GetOr(config_data[k], "filename_exclusions")
                      = GetOr(cfg_call.before[k], "filename_exclusions")

\* C29: for every index and direction move_ioc returns (it does not
\* raise), the registry keeps its length, and it is either unchanged or has
\* exactly the entries at the positions index and index + direction, both
\* in [0, length), exchanged
C29_MoveNeverRaises ==
    cfg_call.op = "move_ioc" =>
        LET index == cfg_call.args[1]
            target == cfg_call.args[1] + cfg_call.args[2]
            length == Len(cfg_call.before)
        IN  /\ cfg_call.returned \in {"True", "False"}
            /\ Len(config_data) = length
            /\ \/ config_data = cfg_call.before
               \/ /\ index \in 0..(length - 1)
                  /\ target \in 0..(length - 1)
                  /\ config_data = Exchanged(cfg_call.before, index, target)

RECURSIVE FileExpressions(_, _, _, _)
\* the merged expressions of the queries file from line k on, each with the
\* category and the system of the headings it stands under
FileExpressions(lines, k, name, system) ==
    IF k > Len(lines) THEN <<>>
    ELSE IF Len(lines[k]) = 3 /\ lines[k][1] = "--- {" /\ lines[k][3] = "} ---"
    THEN FileExpressions(lines, k + 1, lines[k][2], "")
    ELSE IF lines[k] = <<ForMP10>> THEN FileExpressions(lines, k + 1, name, "MP10")
    ELSE IF lines[k] = <<ForNAD>> THEN FileExpressions(lines, k + 1, name, "NAD")
    ELSE IF lines[k] \in {<<>>, <<Rule80>>, <<ReportTitle>>, <<"\n", Rule80>>, <<Rule80, "\n">>}
    THEN FileExpressions(lines, k + 1, name, IF lines[k] = <<>> THEN "" ELSE system)
    ELSE <<[ioc_name |-> name, system |-> system, query |-> lines[k]]>>
         \o FileExpressions(lines, k + 1, name, system)

\* the merged expressions of the query data, group after group
DataExpressions(query_data) ==
    Flatten([g \in 1..Len(query_data) |->
                [q \in 1..Len(query_data[g].queries) |->
                    [ioc_name |-> query_data[g].queries[q].ioc_name,
                     system |-> query_data[g].queries[q].system,
                     query |-> query_data[g].queries[q].query]]])

\* C30: the merged expressions that generate_queries_report writes and those
\* that generate_query_data returns for the same result and registry are
\* the same: the same categories in the same order, and for each category
\* the expressions of MP10 and then those of NAD, one for each template
C30_FileMatchesData ==
    QueriesWritten =>
        FileExpressions(queries_file[1], 1, "", "") = DataExpressions(last_query_data[1])

\* queries were written for two categories, with expressions of both
\* systems, one category having more than one template for a system
C30_Witness ==
    /\ QueriesWritten
    /\ Len(last_query_data[1]) >= 2
    /\ \E g \in 1..Len(last_query_data[1]) :
           /\ Len(last_query_data[1][g].queries) >= 3
           /\ \E q \in 1..Len(last_query_data[1][g].queries) :
                  last_query_data[1][g].queries[q].system = "NAD"
    /\ Len(FileExpressions(queries_file[1], 1, "", "")) >= 4

====
